---------------------------- MODULE Spec2Model ----------------------------
(***************************************************************************)
(* Model of the dynamic difficulty controller of the platformer            *)
(* (src/src/systems/DynamicDifficulty.ts, class DynamicDifficultyAdjuster).*)
(*                                                                         *)
(* Numbers.  The program computes in IEEE doubles; the model computes in   *)
(* fixed point and rounds every product to the nearest unit, the way the   *)
(* program rounds every operation to the nearest double.                   *)
(*   - ratios (the metrics successRate, frustrationLevel, engagementScore, *)
(*     skillLevel, the intensities and multipliers, powerUpFrequency) are  *)
(*     counted in units of 1/ONE, so 0.7 is Milli(700);                    *)
(*   - magnitudes of the settings (enemySpeed, enemyCount, platformSpacing,*)
(*     ringRequirement, gravityStrength, averageAttempts) are counted in   *)
(*     units of 1/SUNIT, so 100 is Num(100) and 3 enemies are Num(3);      *)
(*   - clock readings are whole milliseconds, as Date.now() returns them;  *)
(*   - reactionTime is counted in tenths of a millisecond (ReactionUnit).  *)
(* frustrationLevel is kept twice: in units of 1/ONE like the other        *)
(* ratios, and as the IEEE double itself (frustrationExact), because the   *)
(* program tests it against 0.7 and hands it out as an intensity, and the  *)
(* sums of 0.1 and -0.02 leave residues far below 1/ONE.                   *)
(***************************************************************************)
EXTENDS Integers, Sequences, FiniteSets, TLC

ONE == 100 * 100
SUNIT == 10 * 10
ReactionUnit == 2 * 5

Milli(k) == k * (ONE \div 1000)
Num(k) == k * SUNIT

\* n / d rounded to the nearest integer (d > 0).
RoundDiv(n, d) == (n + (d \div 2)) \div d
\* x * r for a magnitude or ratio x and a ratio r, rounded to the nearest unit.
Times(x, r) == RoundDiv(x * r, ONE)

Max(a, b) == IF a >= b THEN a ELSE b
Min(a, b) == IF a <= b THEN a ELSE b
Abs(a) == IF a >= 0 THEN a ELSE -a

----------------------------------------------------------------------------
(* Program constants *)

ADJUSTMENT_COOLDOWN == 10000
HistoryLimit == 10
\* 0.15, "15% per adjustment"; declared by the class and read nowhere.
MAX_ADJUSTMENT_RATE == Milli(150)

\* The baseline handed to the constructor (main-enhanced.ts builds the same
\* record; it is scenario 1 of the specification).
Scenario1Baseline ==
    [ enemySpeed       |-> Num(100),
      enemyCount       |-> Num(3),
      platformSpacing  |-> Num(120),
      ringRequirement  |-> Num(5),
      gravityStrength  |-> Num(400),
      powerUpFrequency |-> Milli(300) ]

----------------------------------------------------------------------------
(* frustrationLevel as an IEEE double *)

\* A double in [0, 1.1] that is a whole multiple of 2^-58 (0.02 and every sum
\* and difference of 0.3, 0.1 and 0.02 is one) is written as two limbs:
\* its value is (hi * Limb + lo) / 2^58.
Limb == 2^29
DblZero == [hi |-> 0, lo |-> 0]
DblOne == [hi |-> Limb, lo |-> 0]

\* The doubles of the decimal literals, given in thousandths.
DblLiteral(k) ==
    CASE k = 0    -> DblZero
      [] k = 20   -> [hi |-> 10737418,  lo |-> 128849019]
      [] k = 100  -> [hi |-> 53687091,  lo |-> 107374184]
      [] k = 200  -> [hi |-> 107374182, lo |-> 214748368]
      [] k = 300  -> [hi |-> 161061273, lo |-> 322122544]
      [] k = 700  -> [hi |-> 375809638, lo |-> 214748352]
      [] k = 800  -> [hi |-> 429496729, lo |-> 322122560]
      [] k = 990  -> [hi |-> 531502202, lo |-> 472446400]
      [] k = 1000 -> DblOne

DblLess(x, y) == x.hi < y.hi \/ (x.hi = y.hi /\ x.lo < y.lo)

\* Round to nearest, ties to even, at 53 significant bits: a value below 2^-5
\* (hi < 2^24) is exact, one in [2^-5 * 2^(e-1), 2^-5 * 2^e) keeps multiples
\* of 2^e units.
DblRound(hi, lo) ==
    LET e    == IF hi < 2^24 THEN 0
                ELSE CHOOSE i \in 1..6 : hi >= 2^(23 + i) /\ (i = 6 \/ hi < 2^(24 + i))
        step == 2^e
        q    == lo \div step
        r    == lo % step
        up   == e > 0 /\ (2 * r > step \/ (2 * r = step /\ q % 2 = 1))
        lo2  == (IF up THEN q + 1 ELSE q) * step
    IN  IF lo2 = Limb THEN [hi |-> hi + 1, lo |-> 0] ELSE [hi |-> hi, lo |-> lo2]

\* x + y in doubles.
DblAdd(x, y) ==
    LET lo == x.lo + y.lo
    IN  DblRound(x.hi + y.hi + lo \div Limb, lo % Limb)

\* Math.max(0, x - y) in doubles.
DblSub(x, y) ==
    IF ~DblLess(y, x) THEN DblZero
    ELSE LET lo == x.lo - y.lo
         IN  IF lo >= 0 THEN DblRound(x.hi - y.hi, lo)
                        ELSE DblRound(x.hi - y.hi - 1, lo + Limb)

\* Math.max(0, Math.min(1, x + delta)) in doubles, delta in units of 1/ONE.
DblSaturatingAdd(x, delta) ==
    LET d   == DblLiteral(Abs(delta) \div Milli(1))
        sum == IF delta >= 0 THEN DblAdd(x, d) ELSE DblSub(x, d)
    IN  IF DblLess(DblOne, sum) THEN DblOne ELSE sum

\* 1 - x === 1 in doubles although x > 0: x is at most half the distance
\* from 1 to the double below it (2^-54, 16 units).
DblAbsorbed(x) == x.hi = 0 /\ x.lo > 0 /\ x.lo <= 2^4

\* The seed metrics of the constructor.
InitialMetrics ==
    [ successRate      |-> Milli(700),
      averageAttempts  |-> Num(3),
      reactionTime     |-> 300 * ReactionUnit,
      frustrationLevel |-> Milli(300),
      frustrationExact |-> DblLiteral(300),
      engagementScore  |-> Milli(700),
      skillLevel       |-> Milli(500) ]

----------------------------------------------------------------------------
(* Pure helpers of the class *)

lerp(a, b, t) == a + Times(b - a, t)

\* (mutant) updateSuccessRate that takes 1 / attempts as it is.
updateSuccessRateUnsmoothed(m, attempts) ==
    [m EXCEPT !.successRate = RoundDiv(ONE, attempts)]

\* updateSuccessRate(attempts): 1 / attempts, smoothed with weight 0.2.
updateSuccessRate(m, attempts) ==
    LET successRate == RoundDiv(ONE, attempts)
    IN  [m EXCEPT !.successRate = lerp(m.successRate, successRate, Milli(200))]

\* frustrationLevel > k/1000, as the program evaluates it.
FrustrationAbove(m, k) == DblLess(DblLiteral(k), m.frustrationExact)

\* Math.min(frustrationLevel, 0.2) in units of 1/ONE.  A frustration below
\* the unit is rounded so that 1 - intensity is ONE in the model exactly when
\* it is 1 in doubles: 0 and a residue that the subtraction absorbs give 0,
\* a larger residue gives the smallest unit.
ReliefIntensity(m) ==
    IF m.frustrationLevel = 0 /\ m.frustrationExact # DblZero
                              /\ ~DblAbsorbed(m.frustrationExact)
    THEN 1
    ELSE Min(m.frustrationLevel, Milli(200))

\* (mutant) updateFrustrationLevel without the lower clamp.
updateFrustrationLevelNoFloor(m, delta) ==
    [m EXCEPT !.frustrationLevel = Min(ONE, m.frustrationLevel + delta),
              !.frustrationExact = IF m.frustrationLevel + delta < 0
                                   THEN m.frustrationExact
                                   ELSE DblSaturatingAdd(m.frustrationExact, delta)]

\* updateFrustrationLevel(delta): saturating add.
updateFrustrationLevel(m, delta) ==
    [m EXCEPT !.frustrationLevel = Max(0, Min(ONE, m.frustrationLevel + delta)),
              !.frustrationExact = DblSaturatingAdd(m.frustrationExact, delta)]

\* updateEngagementScore(levelTime, attempts, bonus): levelTime in ms,
\* attempts a plain count, bonus a ratio.  levelTime / 60000 in units of
\* 1/ONE is levelTime * ONE / 60000.
updateEngagementScore(m, levelTime, attempts, bonus) ==
    LET timeScore     == Max(0, ONE - RoundDiv(levelTime, 60000 \div ONE))
        attemptScore  == Max(0, ONE - RoundDiv(attempts * ONE, 5))
        newEngagement == RoundDiv(timeScore + attemptScore, 2) + bonus
    IN  [m EXCEPT !.engagementScore = lerp(m.engagementScore, newEngagement, Milli(300))]

\* updateSkillLevel(): reactionTime / 1000 in units of 1/ONE is
\* reactionTime[ms] * ONE / 1000 = reactionTime[0.1 ms] / ((1000 * ReactionUnit) / ONE).
updateSkillLevel(m, consecutiveSuccesses) ==
    LET successComponent     == m.successRate
        reactionComponent    == Max(0, ONE - RoundDiv(m.reactionTime, (1000 * ReactionUnit) \div ONE))
        consistencyComponent == Min(RoundDiv(consecutiveSuccesses * ONE, 5), ONE)
        newSkill == RoundDiv(successComponent + reactionComponent + consistencyComponent, 3)
    IN  [m EXCEPT !.skillLevel = lerp(m.skillLevel, newSkill, Milli(100))]

\* (mutant) the cascade with the Challenge rule tried before the Relief rule.
shouldAdjustDifficultyChallengeFirst(m, consecutiveFailures, consecutiveSuccesses) ==
    LET skillDifference == m.skillLevel - Milli(500)
    IN  IF \/ m.engagementScore < Milli(400)
           \/ m.successRate > Milli(900)
           \/ consecutiveSuccesses > 5
        THEN [adjust |-> TRUE, direction |-> "increase",
              intensity |-> IF m.successRate > Milli(900) THEN Milli(150) ELSE Milli(100)]
        ELSE IF \/ FrustrationAbove(m, 700)
                \/ m.successRate < Milli(400)
                \/ consecutiveFailures > 3
        THEN [adjust |-> TRUE, direction |-> "decrease",
              intensity |-> ReliefIntensity(m)]
        ELSE IF Abs(skillDifference) > Milli(200)
        THEN [adjust |-> TRUE,
              direction |-> IF skillDifference > 0 THEN "increase" ELSE "decrease",
              intensity |-> Times(Abs(skillDifference), Milli(100))]
        ELSE [adjust |-> FALSE, direction |-> "increase", intensity |-> 0]

\* (mutant) the cascade with a Relief intensity of 0.2 whatever the frustration.
shouldAdjustDifficultyFlatRelief(m, consecutiveFailures, consecutiveSuccesses) ==
    LET skillDifference == m.skillLevel - Milli(500)
    IN  IF \/ FrustrationAbove(m, 700)
           \/ m.successRate < Milli(400)
           \/ consecutiveFailures > 3
        THEN [adjust |-> TRUE, direction |-> "decrease", intensity |-> Milli(200)]
        ELSE IF \/ m.engagementScore < Milli(400)
                \/ m.successRate > Milli(900)
                \/ consecutiveSuccesses > 5
        THEN [adjust |-> TRUE, direction |-> "increase",
              intensity |-> IF m.successRate > Milli(900) THEN Milli(150) ELSE Milli(100)]
        ELSE IF Abs(skillDifference) > Milli(200)
        THEN [adjust |-> TRUE,
              direction |-> IF skillDifference > 0 THEN "increase" ELSE "decrease",
              intensity |-> Times(Abs(skillDifference), Milli(100))]
        ELSE [adjust |-> FALSE, direction |-> "increase", intensity |-> 0]

\* (mutant) the cascade with the Skill rule pulling the wrong way.
shouldAdjustDifficultySkillReversed(m, consecutiveFailures, consecutiveSuccesses) ==
    LET skillDifference == m.skillLevel - Milli(500)
    IN  IF \/ FrustrationAbove(m, 700)
           \/ m.successRate < Milli(400)
           \/ consecutiveFailures > 3
        THEN [adjust |-> TRUE, direction |-> "decrease",
              intensity |-> ReliefIntensity(m)]
        ELSE IF \/ m.engagementScore < Milli(400)
                \/ m.successRate > Milli(900)
                \/ consecutiveSuccesses > 5
        THEN [adjust |-> TRUE, direction |-> "increase",
              intensity |-> IF m.successRate > Milli(900) THEN Milli(150) ELSE Milli(100)]
        ELSE IF Abs(skillDifference) > Milli(200)
        THEN [adjust |-> TRUE,
              direction |-> IF skillDifference > 0 THEN "decrease" ELSE "increase",
              intensity |-> Times(Abs(skillDifference), Milli(100))]
        ELSE [adjust |-> FALSE, direction |-> "increase", intensity |-> 0]

\* shouldAdjustDifficulty(): the decision cascade, first match wins.
shouldAdjustDifficulty(m, consecutiveFailures, consecutiveSuccesses) ==
    LET skillDifference == m.skillLevel - Milli(500)
    IN  IF \/ FrustrationAbove(m, 700)
           \/ m.successRate < Milli(400)
           \/ consecutiveFailures > 3
        THEN [adjust |-> TRUE, direction |-> "decrease",
              intensity |-> ReliefIntensity(m)]
        ELSE IF \/ m.engagementScore < Milli(400)
                \/ m.successRate > Milli(900)
                \/ consecutiveSuccesses > 5
        THEN [adjust |-> TRUE, direction |-> "increase",
              intensity |-> IF m.successRate > Milli(900) THEN Milli(150) ELSE Milli(100)]
        ELSE IF Abs(skillDifference) > Milli(200)
        THEN [adjust |-> TRUE,
              direction |-> IF skillDifference > 0 THEN "increase" ELSE "decrease",
              intensity |-> Times(Abs(skillDifference), Milli(100))]
        ELSE [adjust |-> FALSE, direction |-> "increase", intensity |-> 0]

\* Math.ceil / Math.floor of a magnitude given in units of 1/(SUNIT * ONE),
\* as a magnitude in units of 1/SUNIT.
CeilCount(p) == (-((-p) \div (SUNIT * ONE))) * SUNIT
FloorCount(p) == (p \div (SUNIT * ONE)) * SUNIT

\* (mutant) clampSettings with the upper bounds forgotten.
clampSettingsLowerOnly(s) ==
    [s EXCEPT
       !.enemySpeed       = Max(Num(50), s.enemySpeed),
       !.enemyCount       = Max(Num(1), s.enemyCount),
       !.platformSpacing  = Max(Num(50), s.platformSpacing),
       !.gravityStrength  = Max(Num(300), s.gravityStrength),
       !.powerUpFrequency = Max(Milli(100), s.powerUpFrequency)]

\* (mutant) clampSettings with the lower bounds forgotten.
clampSettingsUpperOnly(s) ==
    [s EXCEPT
       !.enemySpeed       = Min(Num(300), s.enemySpeed),
       !.enemyCount       = Min(Num(10), s.enemyCount),
       !.platformSpacing  = Min(Num(200), s.platformSpacing),
       !.gravityStrength  = Min(Num(800), s.gravityStrength),
       !.powerUpFrequency = Min(ONE, s.powerUpFrequency)]

\* (mutant) clampSettings that leaves gravityStrength as it is.
clampSettingsNoGravity(s) ==
    [s EXCEPT
       !.enemySpeed       = Max(Num(50), Min(Num(300), s.enemySpeed)),
       !.enemyCount       = Max(Num(1), Min(Num(10), s.enemyCount)),
       !.platformSpacing  = Max(Num(50), Min(Num(200), s.platformSpacing)),
       !.powerUpFrequency = Max(Milli(100), Min(ONE, s.powerUpFrequency))]

clampSettings(s) ==
    [s EXCEPT
       !.enemySpeed       = Max(Num(50), Min(Num(300), s.enemySpeed)),
       !.enemyCount       = Max(Num(1), Min(Num(10), s.enemyCount)),
       !.platformSpacing  = Max(Num(50), Min(Num(200), s.platformSpacing)),
       !.gravityStrength  = Max(Num(300), Min(Num(800), s.gravityStrength)),
       !.powerUpFrequency = Max(Milli(100), Min(ONE, s.powerUpFrequency))]

\* (mutant) the scaling with Math.floor on the way up as on the way down.
scaleSettingsFloorOnIncrease(s, direction, intensity) ==
    LET multiplier == IF direction = "increase" THEN ONE + intensity ELSE ONE - intensity
    IN  IF direction = "increase"
        THEN [s EXCEPT
               !.enemySpeed       = Times(s.enemySpeed, multiplier),
               !.gravityStrength  = Times(s.gravityStrength, multiplier),
               !.enemyCount       = Min(Num(10), FloorCount(s.enemyCount * multiplier)),
               !.platformSpacing  = Times(s.platformSpacing, Milli(1100)),
               !.powerUpFrequency = Times(s.powerUpFrequency, Milli(900))]
        ELSE [s EXCEPT
               !.enemySpeed       = Times(s.enemySpeed, multiplier),
               !.gravityStrength  = Times(s.gravityStrength, multiplier),
               !.enemyCount       = Max(Num(1), FloorCount(s.enemyCount * multiplier)),
               !.platformSpacing  = Times(s.platformSpacing, Milli(900)),
               !.powerUpFrequency = Times(s.powerUpFrequency, Milli(1100))]

\* (mutant) a decrease that makes power-ups rarer, as an increase does.
scaleSettingsFewerPowerUps(s, direction, intensity) ==
    LET multiplier == IF direction = "increase" THEN ONE + intensity ELSE ONE - intensity
    IN  IF direction = "increase"
        THEN [s EXCEPT
               !.enemySpeed       = Times(s.enemySpeed, multiplier),
               !.gravityStrength  = Times(s.gravityStrength, multiplier),
               !.enemyCount       = Min(Num(10), CeilCount(s.enemyCount * multiplier)),
               !.platformSpacing  = Times(s.platformSpacing, Milli(1100)),
               !.powerUpFrequency = Times(s.powerUpFrequency, Milli(900))]
        ELSE [s EXCEPT
               !.enemySpeed       = Times(s.enemySpeed, multiplier),
               !.gravityStrength  = Times(s.gravityStrength, multiplier),
               !.enemyCount       = Max(Num(1), FloorCount(s.enemyCount * multiplier)),
               !.platformSpacing  = Times(s.platformSpacing, Milli(900)),
               !.powerUpFrequency = Times(s.powerUpFrequency, Milli(900))]

\* The scaling of adjustDifficulty, before clampSettings.
scaleSettings(s, direction, intensity) ==
    LET multiplier == IF direction = "increase" THEN ONE + intensity ELSE ONE - intensity
    IN  IF direction = "increase"
        THEN [s EXCEPT
               !.enemySpeed       = Times(s.enemySpeed, multiplier),
               !.gravityStrength  = Times(s.gravityStrength, multiplier),
               !.enemyCount       = Min(Num(10), CeilCount(s.enemyCount * multiplier)),
               !.platformSpacing  = Times(s.platformSpacing, Milli(1100)),
               !.powerUpFrequency = Times(s.powerUpFrequency, Milli(900))]
        ELSE [s EXCEPT
               !.enemySpeed       = Times(s.enemySpeed, multiplier),
               !.gravityStrength  = Times(s.gravityStrength, multiplier),
               !.enemyCount       = Max(Num(1), FloorCount(s.enemyCount * multiplier)),
               !.platformSpacing  = Times(s.platformSpacing, Milli(900)),
               !.powerUpFrequency = Times(s.powerUpFrequency, Milli(1100))]

\* (mutant) pop() where shift() is meant: the newest entry is dropped.
pushHistoryDropsNewest(h, v) ==
    LET pushed == Append(h, v)
    IN  IF Len(pushed) > HistoryLimit THEN SubSeq(pushed, 1, HistoryLimit) ELSE pushed

\* adjustmentHistory.push(v), then shift() when longer than 10.
pushHistory(h, v) ==
    LET pushed == Append(h, v)
    IN  IF Len(pushed) > HistoryLimit THEN Tail(pushed) ELSE pushed

signedIntensity(direction, intensity) ==
    IF direction = "increase" THEN intensity ELSE -intensity

\* (mutant) the cooldown taken in seconds where the clock counts milliseconds.
cooldownElapsedInSeconds(now, last) == ~(now - last < ADJUSTMENT_COOLDOWN \div 1000)

\* The gate of considerAdjustment: FALSE is the early return.
cooldownElapsed(now, last) == ~(now - last < ADJUSTMENT_COOLDOWN)

----------------------------------------------------------------------------
(* State *)

VARIABLES
    playerMetrics,         \* PlayerMetrics record
    baseSettings,          \* DifficultySettings kept for reset()
    currentSettings,       \* DifficultySettings handed to the game
    adjustmentHistory,     \* sequence of signed intensities
    lastAdjustmentTime,
    deathCount,
    levelStartTime,
    lastActionTime,
    consecutiveFailures,
    consecutiveSuccesses,
    clock,                 \* what Date.now() returns
    calls,                 \* calls so far, per event kind and for reset (observer)
    lastCall,              \* the last call and what it did (observer)
    adjustLog,             \* signed intensities applied since construction/reset (observer)
    adjustTimes,           \* readings of the last two applied adjustments (observer)
    heldSettings,          \* the settings object a consumer got from an accessor
    heldMetrics,           \* the metrics object a consumer got from an accessor
    givenBaseline,         \* the record the constructor was called with (observer)
    gameState,             \* GameStateManager.state
    ringPool               \* an ObjectPool: its pool, active and maxSize fields

ctl == <<playerMetrics, baseSettings, currentSettings, adjustmentHistory,
         lastAdjustmentTime, deathCount, levelStartTime, lastActionTime,
         consecutiveFailures, consecutiveSuccesses>>
vars == <<playerMetrics, baseSettings, currentSettings, adjustmentHistory,
          lastAdjustmentTime, deathCount, levelStartTime, lastActionTime,
          consecutiveFailures, consecutiveSuccesses, clock, calls, lastCall,
          adjustLog, adjustTimes, heldSettings, heldMetrics, givenBaseline,
          gameState, ringPool>>

NoData == [present |-> FALSE, expectedTime |-> 0]
Marker(t) == [present |-> TRUE, expectedTime |-> t]

EventKinds == {"level_start", "player_death", "level_complete", "ring_collected",
               "power_up_collected", "player_input"}

\* What updateMetrics can be handed besides the six kinds of the switch.
OtherKind == "bonus_stage"

----------------------------------------------------------------------------
(* updateMetrics *)

\* The cases of the switch of updateMetrics, each on a record `st` of the
\* controller's fields, at the clock reading `now`.
\* (mutant) level_start that also clears the streaks.
onLevelStartClearsStreaks(st, now) ==
    [st EXCEPT !.levelStartTime = now, !.deathCount = 0,
               !.consecutiveFailures = 0, !.consecutiveSuccesses = 0]

onLevelStart(st, now) ==
    [st EXCEPT !.levelStartTime = now, !.deathCount = 0]

\* (mutant) player_death that does not count the failure streak.
onPlayerDeathNoStreak(st) ==
    [st EXCEPT !.deathCount = st.deathCount + 1,
               !.consecutiveSuccesses = 0,
               !.playerMetrics = updateFrustrationLevel(st.playerMetrics, Milli(100))]

\* (mutant) player_death that leaves the winning streak standing.
onPlayerDeathKeepsSuccesses(st) ==
    [st EXCEPT !.deathCount = st.deathCount + 1,
               !.consecutiveFailures = st.consecutiveFailures + 1,
               !.playerMetrics = updateFrustrationLevel(st.playerMetrics, Milli(100))]

onPlayerDeath(st) ==
    [st EXCEPT !.deathCount = st.deathCount + 1,
               !.consecutiveFailures = st.consecutiveFailures + 1,
               !.consecutiveSuccesses = 0,
               !.playerMetrics = updateFrustrationLevel(st.playerMetrics, Milli(100))]

\* (mutant) level_complete that leaves the failure streak standing.
onLevelCompleteKeepsFailures(st, now) ==
    LET levelTime == now - st.levelStartTime
        attempts  == st.deathCount + 1
    IN  [st EXCEPT !.consecutiveSuccesses = st.consecutiveSuccesses + 1,
                   !.playerMetrics =
                       updateEngagementScore(updateSuccessRate(st.playerMetrics, attempts),
                                             levelTime, attempts, 0)]

\* (mutant) level_complete that clears deathCount.
onLevelCompleteClearsDeaths(st, now) ==
    LET levelTime == now - st.levelStartTime
        attempts  == st.deathCount + 1
    IN  [st EXCEPT !.consecutiveSuccesses = st.consecutiveSuccesses + 1,
                   !.consecutiveFailures = 0,
                   !.deathCount = 0,
                   !.playerMetrics =
                       updateEngagementScore(updateSuccessRate(st.playerMetrics, attempts),
                                             levelTime, attempts, 0)]

onLevelComplete(st, now) ==
    LET levelTime == now - st.levelStartTime
        attempts  == st.deathCount + 1
    IN  [st EXCEPT !.consecutiveSuccesses = st.consecutiveSuccesses + 1,
                   !.consecutiveFailures = 0,
                   !.playerMetrics =
                       updateEngagementScore(updateSuccessRate(st.playerMetrics, attempts),
                                             levelTime, attempts, 0)]

\* (mutant) ring_collected that does not record when it happened.
onRingCollectedKeepsTime(st, now) ==
    [st EXCEPT !.playerMetrics = updateFrustrationLevel(st.playerMetrics, -Milli(20))]

onRingCollected(st, now) ==
    [st EXCEPT !.lastActionTime = now,
               !.playerMetrics = updateFrustrationLevel(st.playerMetrics, -Milli(20))]

onPowerUpCollected(st) ==
    [st EXCEPT !.playerMetrics = updateEngagementScore(st.playerMetrics, 0, 0, Milli(50))]

\* `data?.expectedTime` is truthy: there is a payload and its marker is not 0.
onPlayerInput(st, data, now) ==
    IF data.present /\ data.expectedTime # 0
    THEN LET reactionTime == (now - data.expectedTime) * ReactionUnit
         IN  [st EXCEPT !.playerMetrics.reactionTime =
                            lerp(st.playerMetrics.reactionTime, reactionTime, Milli(100))]
    ELSE st

\* The switch: an event kind without a case falls through.
eventUpdate(st, event, data, now) ==
    CASE event = "level_start"        -> onLevelStart(st, now)
      [] event = "player_death"       -> onPlayerDeath(st)
      [] event = "level_complete"     -> onLevelComplete(st, now)
      [] event = "ring_collected"     -> onRingCollected(st, now)
      [] event = "power_up_collected" -> onPowerUpCollected(st)
      [] event = "player_input"       -> onPlayerInput(st, data, now)
      [] OTHER                        -> st

\* this.updateSkillLevel() on the same record.
skillUpdate(st) ==
    [st EXCEPT !.playerMetrics = updateSkillLevel(st.playerMetrics, st.consecutiveSuccesses)]

\* (mutant) adjustDifficulty when currentSettings and baseSettings are one
\* object: the baseline is scaled along.
adjustDifficultyOnBaseline(st, direction, intensity) ==
    [st EXCEPT
       !.currentSettings = clampSettings(scaleSettings(st.currentSettings, direction, intensity)),
       !.baseSettings = clampSettings(scaleSettings(st.currentSettings, direction, intensity)),
       !.adjustmentHistory = pushHistory(st.adjustmentHistory,
                                         signedIntensity(direction, intensity))]

\* adjustDifficulty(direction, intensity) on the same record.
adjustDifficulty(st, direction, intensity) ==
    [st EXCEPT
       !.currentSettings = clampSettings(scaleSettings(st.currentSettings, direction, intensity)),
       !.adjustmentHistory = pushHistory(st.adjustmentHistory,
                                         signedIntensity(direction, intensity))]

\* What considerAdjustment does: "cooldown" (early return), "nomatch" or "applied".
gateOutcome(st, now) ==
    IF ~cooldownElapsed(now, st.lastAdjustmentTime) THEN "cooldown"
    ELSE IF shouldAdjustDifficulty(st.playerMetrics, st.consecutiveFailures,
                                   st.consecutiveSuccesses).adjust
         THEN "applied" ELSE "nomatch"

\* (mutant) considerAdjustment that does not record when it adjusted.
considerAdjustmentForgetsTime(st, now) ==
    LET shouldAdjust == shouldAdjustDifficulty(st.playerMetrics, st.consecutiveFailures,
                                               st.consecutiveSuccesses)
    IN  IF ~cooldownElapsed(now, st.lastAdjustmentTime) THEN st
        ELSE IF shouldAdjust.adjust
             THEN adjustDifficulty(st, shouldAdjust.direction, shouldAdjust.intensity)
             ELSE st

\* (mutant) considerAdjustment that restarts the cooldown whenever the gate
\* is open, adjustment or not.
considerAdjustmentRestartsCooldown(st, now) ==
    LET shouldAdjust == shouldAdjustDifficulty(st.playerMetrics, st.consecutiveFailures,
                                               st.consecutiveSuccesses)
    IN  IF ~cooldownElapsed(now, st.lastAdjustmentTime) THEN st
        ELSE IF shouldAdjust.adjust
             THEN [adjustDifficulty(st, shouldAdjust.direction, shouldAdjust.intensity)
                     EXCEPT !.lastAdjustmentTime = now]
             ELSE [st EXCEPT !.lastAdjustmentTime = now]

considerAdjustment(st, now) ==
    LET shouldAdjust == shouldAdjustDifficulty(st.playerMetrics, st.consecutiveFailures,
                                               st.consecutiveSuccesses)
    IN  IF ~cooldownElapsed(now, st.lastAdjustmentTime) THEN st
        ELSE IF shouldAdjust.adjust
             THEN [adjustDifficulty(st, shouldAdjust.direction, shouldAdjust.intensity)
                     EXCEPT !.lastAdjustmentTime = now]
             ELSE st

\* (mutant) updateMetrics that decides before it looks at the event.
updateMetricsDecidesFirst(st, event, data, now) ==
    skillUpdate(eventUpdate(considerAdjustment(st, now), event, data, now))

\* The body of updateMetrics(event, data) on the same record: the switch, then
\* this.updateSkillLevel(), then this.considerAdjustment().
updateMetrics(st, event, data, now) ==
    considerAdjustment(skillUpdate(eventUpdate(st, event, data, now)), now)

\* (mutant) reset() that forgets deathCount.
resetStateKeepsDeathCount(st) ==
    [st EXCEPT !.currentSettings = st.baseSettings,
               !.adjustmentHistory = <<>>,
               !.consecutiveFailures = 0,
               !.consecutiveSuccesses = 0]

\* (mutant) reset() that also restores the seed metrics.
resetStateReseedsMetrics(st) ==
    [st EXCEPT !.currentSettings = st.baseSettings,
               !.adjustmentHistory = <<>>,
               !.consecutiveFailures = 0,
               !.consecutiveSuccesses = 0,
               !.deathCount = 0,
               !.playerMetrics = InitialMetrics]

\* reset() on the same record.
resetState(st) ==
    [st EXCEPT !.currentSettings = st.baseSettings,
               !.adjustmentHistory = <<>>,
               !.consecutiveFailures = 0,
               !.consecutiveSuccesses = 0,
               !.deathCount = 0]

\* The controller's fields as one record, and back.
State ==
    [ playerMetrics        |-> playerMetrics,
      baseSettings         |-> baseSettings,
      currentSettings      |-> currentSettings,
      adjustmentHistory    |-> adjustmentHistory,
      lastAdjustmentTime   |-> lastAdjustmentTime,
      deathCount           |-> deathCount,
      levelStartTime       |-> levelStartTime,
      lastActionTime       |-> lastActionTime,
      consecutiveFailures  |-> consecutiveFailures,
      consecutiveSuccesses |-> consecutiveSuccesses ]

Becomes(st) ==
    /\ playerMetrics' = st.playerMetrics
    /\ baseSettings' = st.baseSettings
    /\ currentSettings' = st.currentSettings
    /\ adjustmentHistory' = st.adjustmentHistory
    /\ lastAdjustmentTime' = st.lastAdjustmentTime
    /\ deathCount' = st.deathCount
    /\ levelStartTime' = st.levelStartTime
    /\ lastActionTime' = st.lastActionTime
    /\ consecutiveFailures' = st.consecutiveFailures
    /\ consecutiveSuccesses' = st.consecutiveSuccesses

\* (mutant) a constructor that clamps the settings it starts with.
ConstructedClamped(base) ==
    [ playerMetrics        |-> InitialMetrics,
      baseSettings         |-> base,
      currentSettings      |-> clampSettings(base),
      adjustmentHistory    |-> <<>>,
      lastAdjustmentTime   |-> 0,
      deathCount           |-> 0,
      levelStartTime       |-> 0,
      lastActionTime       |-> 0,
      consecutiveFailures  |-> 0,
      consecutiveSuccesses |-> 0 ]

\* new DynamicDifficultyAdjuster(baseSettings)
Constructed(base) ==
    [ playerMetrics        |-> InitialMetrics,
      baseSettings         |-> base,
      currentSettings      |-> base,
      adjustmentHistory    |-> <<>>,
      lastAdjustmentTime   |-> 0,
      deathCount           |-> 0,
      levelStartTime       |-> 0,
      lastActionTime       |-> 0,
      consecutiveFailures  |-> 0,
      consecutiveSuccesses |-> 0 ]

----------------------------------------------------------------------------
(* Accessors and what a consumer holds *)

\* An object in a consumer's hands: the accessor it came from, whether it is
\* the controller's own object (live) or a spread copy of it, and its fields.
Nothing == [from |-> "none", live |-> FALSE, value |-> [none |-> TRUE]]

\* (mutant) getCurrentSettings() that returns this.currentSettings itself.
getCurrentSettingsLive(st) ==
    [from |-> "getCurrentSettings", live |-> TRUE, value |-> st.currentSettings]

\* getCurrentSettings(): { ...this.currentSettings }
getCurrentSettings(st) ==
    [from |-> "getCurrentSettings", live |-> FALSE, value |-> st.currentSettings]

\* getPlayerMetrics(): { ...this.playerMetrics }
getPlayerMetrics(st) ==
    [from |-> "getPlayerMetrics", live |-> FALSE, value |-> st.playerMetrics]

\* getDebugInfo(): metrics and settings are the controller's own objects.
getDebugInfo(st) ==
    [ metrics     |-> [from |-> "getDebugInfo", live |-> TRUE, value |-> st.playerMetrics],
      settings    |-> [from |-> "getDebugInfo", live |-> TRUE, value |-> st.currentSettings],
      consecutive |-> [failures  |-> st.consecutiveFailures,
                       successes |-> st.consecutiveSuccesses],
      adjustments |-> Len(st.adjustmentHistory) ]

\* A held object after the controller changed its own object in place: a live
\* one shows the change, a copy does not.
Follow(held, own) == IF held.live THEN [held EXCEPT !.value = own] ELSE held

\* A held settings object after reset() gave the controller a new settings
\* object: the old object keeps its fields and is the controller's no more.
Detach(held) == [held EXCEPT !.live = FALSE]

\* updateMetrics(event, data) when Date.now() returns `now`: the switch, the
\* skill recompute, then considerAdjustment.  (considerAdjustment reads
\* Date.now() again; the call is synchronous and both reads are taken equal.)
UpdateMetricsAt(event, data, now) ==
    LET st1      == skillUpdate(eventUpdate(State, event, data, now))
        outcome  == gateOutcome(st1, now)
        decision == shouldAdjustDifficulty(st1.playerMetrics, st1.consecutiveFailures,
                                           st1.consecutiveSuccesses)
        st2      == updateMetrics(State, event, data, now)
    IN  /\ Becomes(st2)
        /\ clock' = now
        /\ calls' = [calls EXCEPT ![event] = @ + 1]
        /\ lastCall' = [op |-> event, gate |-> outcome]
        /\ adjustLog' = IF outcome = "applied"
                        THEN Append(adjustLog, IF decision.direction = "increase"
                                               THEN decision.intensity
                                               ELSE -decision.intensity)
                        ELSE adjustLog
        /\ adjustTimes' = IF outcome = "applied"
                          THEN <<adjustTimes[2], now>>
                          ELSE adjustTimes
        /\ heldSettings' = Follow(heldSettings, st2.currentSettings)
        /\ heldMetrics' = Follow(heldMetrics, st2.playerMetrics)
        /\ UNCHANGED <<givenBaseline, gameState, ringPool>>

\* A call at the current reading of the clock.
UpdateMetrics(event, data) == UpdateMetricsAt(event, data, clock)

Reset ==
    /\ Becomes(resetState(State))
    /\ calls' = [calls EXCEPT !["reset"] = @ + 1]
    /\ lastCall' = [op |-> "reset", gate |-> "none"]
    /\ adjustLog' = <<>>
    /\ heldSettings' = Detach(heldSettings)
    /\ heldMetrics' = Follow(heldMetrics, resetState(State).playerMetrics)
    /\ UNCHANGED <<clock, adjustTimes, givenBaseline, gameState, ringPool>>

\* Time passes between two calls.
Advance(dt) ==
    /\ clock' = clock + dt
    /\ UNCHANGED <<ctl, calls, lastCall, adjustLog, adjustTimes,
                   heldSettings, heldMetrics, givenBaseline, gameState, ringPool>>

\* The consumer calls an accessor and keeps what it returns.
GetCurrentSettings ==
    /\ heldSettings' = getCurrentSettings(State)
    /\ heldSettings' # heldSettings
    /\ UNCHANGED <<ctl, clock, calls, lastCall, adjustLog, adjustTimes,
                   heldMetrics, givenBaseline, gameState, ringPool>>

GetPlayerMetrics ==
    /\ heldMetrics' = getPlayerMetrics(State)
    /\ heldMetrics' # heldMetrics
    /\ UNCHANGED <<ctl, clock, calls, lastCall, adjustLog, adjustTimes,
                   heldSettings, givenBaseline, gameState, ringPool>>

GetDebugInfo ==
    /\ heldSettings' = getDebugInfo(State).settings
    /\ heldMetrics' = getDebugInfo(State).metrics
    /\ <<heldSettings', heldMetrics'>> # <<heldSettings, heldMetrics>>
    /\ UNCHANGED <<ctl, clock, calls, lastCall, adjustLog, adjustTimes, givenBaseline,
                   gameState, ringPool>>

\* The consumer assigns to a field of the settings object it holds.  When the
\* object is the controller's own, the assignment is to the controller's field.
WriteHeldSettings(field, v) ==
    /\ heldSettings.from # "none"
    /\ heldSettings.value[field] # v
    /\ heldSettings' = [heldSettings EXCEPT !.value[field] = v]
    /\ currentSettings' = IF heldSettings.live
                          THEN [currentSettings EXCEPT ![field] = v]
                          ELSE currentSettings
    /\ lastCall' = [op |-> "consumer_write", gate |-> "none"]
    /\ UNCHANGED <<playerMetrics, baseSettings, adjustmentHistory, lastAdjustmentTime,
                   deathCount, levelStartTime, lastActionTime, consecutiveFailures,
                   consecutiveSuccesses, clock, calls, adjustLog, adjustTimes,
                   heldMetrics, givenBaseline, gameState, ringPool>>

\* The same for the metrics object it holds.
\* metrics[field] = v on a metrics object.
WriteMetric(m, field, v) ==
    IF field = "frustrationLevel"
    THEN [m EXCEPT ![field] = v, !.frustrationExact = DblLiteral(v \div Milli(1))]
    ELSE [m EXCEPT ![field] = v]

WriteHeldMetrics(field, v) ==
    /\ heldMetrics.from # "none"
    /\ heldMetrics.value[field] # v
    /\ heldMetrics' = [heldMetrics EXCEPT !.value = WriteMetric(@, field, v)]
    /\ playerMetrics' = IF heldMetrics.live
                        THEN WriteMetric(playerMetrics, field, v)
                        ELSE playerMetrics
    /\ lastCall' = [op |-> "consumer_write", gate |-> "none"]
    /\ UNCHANGED <<baseSettings, currentSettings, adjustmentHistory, lastAdjustmentTime,
                   deathCount, levelStartTime, lastActionTime, consecutiveFailures,
                   consecutiveSuccesses, clock, calls, adjustLog, adjustTimes,
                   heldSettings, givenBaseline, gameState, ringPool>>

----------------------------------------------------------------------------
(* GameStateManager (score, lives, level, rings) *)

\* The field initialiser of GameStateManager.state; reset() assigns the same.
InitialGameState ==
    [score |-> 0, lives |-> 3, level |-> 1, ringsCollected |-> 0, totalRings |-> 0]

addScore(s, points) == [s EXCEPT !.score = s.score + points]

collectRing(s) == addScore([s EXCEPT !.ringsCollected = s.ringsCollected + 1], 100)

\* loseLife(): the state it leaves and the boolean it returns.
loseLife(s) ==
    [state  |-> [s EXCEPT !.lives = s.lives - 1],
     result |-> s.lives - 1 > 0]

\* (mutant) addLife() without its cap.
addLifeUncapped(s) == [s EXCEPT !.lives = s.lives + 1]

addLife(s) == IF s.lives < 5 THEN [s EXCEPT !.lives = s.lives + 1] ELSE s

nextLevel(s) == addScore([s EXCEPT !.level = s.level + 1, !.ringsCollected = 0], 500)

setTotalRings(s, count) == [s EXCEPT !.totalRings = count]

resetLevel(s) == [s EXCEPT !.ringsCollected = 0]

\* GameStateManager.reset()
resetGame(s) == InitialGameState

\* A call on the GameStateManager: it leaves the difficulty controller alone.
\* lastCall notes the method and, for addLife and loseLife, which way the
\* method's test went.
GameCall(op, note, s) ==
    /\ gameState' = s
    /\ lastCall' = [op |-> op, gate |-> note]
    /\ UNCHANGED <<ctl, clock, calls, adjustLog, adjustTimes, heldSettings,
                   heldMetrics, givenBaseline, ringPool>>

CollectRing == GameCall("collectRing", "none", collectRing(gameState))
LoseLife ==
    GameCall("loseLife", IF loseLife(gameState).result THEN "alive" ELSE "out",
             loseLife(gameState).state)
AddLife ==
    GameCall("addLife", IF gameState.lives < 5 THEN "added" ELSE "full", addLife(gameState))
NextLevel == GameCall("nextLevel", "none", nextLevel(gameState))
SetTotalRings(count) == GameCall("setTotalRings", "none", setTotalRings(gameState, count))
ResetLevel == GameCall("resetLevel", "none", resetLevel(gameState))
ResetGame == GameCall("GameStateManager.reset", "none", resetGame(gameState))

----------------------------------------------------------------------------
(* ObjectPool *)

\* The objects are told apart by the order in which factory() made them
\* (made counts the calls of factory); 0 is an object that never came from
\* the pool.  active is a Set: it is kept in insertion order, without
\* duplicates.  reset(obj) works on the object, not on the pool.
PoolInitialSize == 2
PoolMaxSize == 3
MaxObjects == 5

Has(set, obj) == \E i \in 1..Len(set) : set[i] = obj
SetAdd(set, obj) == IF Has(set, obj) THEN set ELSE Append(set, obj)
SetDelete(set, obj) == SelectSeq(set, LAMBDA x : x # obj)

\* new ObjectPool(factory, reset, initialSize, maxSize)
newObjectPool(initialSize, maxSize) ==
    [ pool    |-> [i \in 1..initialSize |-> i],
      active  |-> << >>,
      maxSize |-> maxSize,
      made    |-> initialSize ]

\* get(): the object returned (obj) and the pool afterwards (self).
get(p) ==
    IF Len(p.pool) > 0
    THEN LET obj == p.pool[Len(p.pool)]
         IN  [obj |-> obj,
              self |-> [p EXCEPT !.pool = SubSeq(p.pool, 1, Len(p.pool) - 1),
                                 !.active = SetAdd(p.active, obj)]]
    ELSE LET obj == p.made + 1
         IN  [obj |-> obj,
              self |-> [p EXCEPT !.made = obj, !.active = SetAdd(p.active, obj)]]

\* (mutant) release without the membership test.
releaseUnchecked(p, obj) ==
    IF Len(p.pool) < p.maxSize
    THEN [p EXCEPT !.active = SetDelete(p.active, obj), !.pool = Append(p.pool, obj)]
    ELSE [p EXCEPT !.active = SetDelete(p.active, obj)]

\* release(obj)
release(p, obj) ==
    IF ~Has(p.active, obj) THEN p
    ELSE IF Len(p.pool) < p.maxSize
         THEN [p EXCEPT !.active = SetDelete(p.active, obj), !.pool = Append(p.pool, obj)]
         ELSE [p EXCEPT !.active = SetDelete(p.active, obj)]

\* releaseAll(): the active objects are pushed in insertion order while
\* there is room.
releaseAll(p) ==
    LET room == Max(0, p.maxSize - Len(p.pool))
        kept == Min(room, Len(p.active))
    IN  [p EXCEPT !.pool = p.pool \o SubSeq(p.active, 1, kept), !.active = << >>]

\* getStats()
getStats(p) ==
    [ pooled |-> Len(p.pool),
      active |-> Len(p.active),
      total  |-> Len(p.pool) + Len(p.active) ]

\* A call on the pool: it leaves the controller and the game state alone.
PoolCall(op, note, p) ==
    /\ ringPool' = p
    /\ lastCall' = [op |-> op, gate |-> note]
    /\ UNCHANGED <<ctl, clock, calls, adjustLog, adjustTimes, heldSettings,
                   heldMetrics, givenBaseline, gameState>>

PoolGet ==
    /\ Len(ringPool.pool) > 0 \/ ringPool.made < MaxObjects
    /\ PoolCall("get", IF Len(ringPool.pool) > 0 THEN "pooled" ELSE "made", get(ringPool).self)

PoolRelease(obj) ==
    PoolCall("release",
             IF ~Has(ringPool.active, obj) THEN "inactive"
             ELSE IF Len(ringPool.pool) < ringPool.maxSize THEN "returned" ELSE "dropped",
             release(ringPool, obj))

PoolReleaseAll == PoolCall("releaseAll", "none", releaseAll(ringPool))

PoolGetStats == PoolCall("getStats", "none", ringPool)

----------------------------------------------------------------------------
(* Specifications *)

\* Date.now() at construction, in ms.  lastAdjustmentTime and levelStartTime
\* start at 0, far in the past of any real clock reading.
Epoch == 100000

CallKinds == EventKinds \cup {OtherKind, "reset"}

Init ==
    /\ playerMetrics = InitialMetrics
    /\ baseSettings = Scenario1Baseline
    /\ currentSettings = Scenario1Baseline
    /\ adjustmentHistory = <<>>
    /\ lastAdjustmentTime = 0
    /\ deathCount = 0
    /\ levelStartTime = 0
    /\ lastActionTime = 0
    /\ consecutiveFailures = 0
    /\ consecutiveSuccesses = 0
    /\ clock = Epoch
    /\ calls = [k \in CallKinds |-> 0]
    /\ lastCall = [op |-> "new", gate |-> "none"]
    /\ adjustLog = <<>>
    /\ adjustTimes = <<-1, -1>>
    /\ heldSettings = Nothing
    /\ heldMetrics = Nothing
    /\ givenBaseline = Scenario1Baseline
    /\ gameState = InitialGameState
    /\ ringPool = newObjectPool(PoolInitialSize, PoolMaxSize)

TotalCalls ==
    calls["level_start"] + calls["player_death"] + calls["level_complete"]
      + calls["ring_collected"] + calls["power_up_collected"] + calls["player_input"]
      + calls[OtherKind] + calls["reset"]

\* Spec: any caller.  Every event kind, any payload, reset() at any time, up
\* to MaxCalls calls within MaxWait ms of construction.
MaxCalls == 3
MaxWait == 20000
Delays == {3000, 10000}
FutureMs == 100000
Markers == {0, clock - 200, clock + FutureMs}

Next ==
    \/ /\ TotalCalls < MaxCalls
       /\ \E e \in EventKinds \cup {OtherKind} : UpdateMetrics(e, NoData)
    \/ /\ TotalCalls < MaxCalls
       /\ \E t \in Markers : UpdateMetrics("player_input", Marker(t))
    \/ /\ TotalCalls < MaxCalls
       /\ Reset
    \/ \E dt \in Delays :
          /\ clock + dt <= Epoch + MaxWait
          /\ Advance(dt)

Spec == Init /\ [][Next]_vars

\* SpecPaced: deaths and level completions in any order, each call one
\* cooldown after the previous one, so that the gate never holds a call back.
MaxPacedCalls == 11
MaxPacedResets == 1

NextPaced ==
    \/ /\ TotalCalls < MaxPacedCalls
       /\ UpdateMetricsAt("player_death", NoData, clock + ADJUSTMENT_COOLDOWN)
    \/ /\ TotalCalls < MaxPacedCalls
       /\ UpdateMetricsAt("level_complete", NoData, clock + ADJUSTMENT_COOLDOWN)
    \/ /\ TotalCalls < MaxPacedCalls
       /\ calls["reset"] < MaxPacedResets
       /\ Reset

SpecPaced == Init /\ [][NextPaced]_vars

\* SpecMood: many small events at one reading of the clock.  Deaths and rings
\* as many as take the seed frustration to either end of its range, and one
\* more of each.
MoodDeaths == ((ONE - InitialMetrics.frustrationLevel) \div Milli(100)) + 1
MoodRings == (InitialMetrics.frustrationLevel \div Milli(20)) + 1
MoodCompletes == 1

NextMood ==
    \/ /\ calls["player_death"] < MoodDeaths
       /\ UpdateMetrics("player_death", NoData)
    \/ /\ calls["ring_collected"] < MoodRings
       /\ UpdateMetrics("ring_collected", NoData)
    \/ /\ calls["level_complete"] < MoodCompletes
       /\ UpdateMetrics("level_complete", NoData)

SpecMood == Init /\ [][NextMood]_vars

\* SpecBonus: power-ups, level starts and level completions, with the clock
\* moving in steps of BonusDelay ms.
MaxPowerUps == 7
BonusStarts == 1
BonusCompletes == 2
BonusDelay == 5000
MaxBonusWait == 10000

NextBonus ==
    \/ /\ calls["power_up_collected"] < MaxPowerUps
       /\ UpdateMetrics("power_up_collected", NoData)
    \/ /\ calls["level_start"] < BonusStarts
       /\ UpdateMetrics("level_start", NoData)
    \/ /\ calls["level_complete"] < BonusCompletes
       /\ UpdateMetrics("level_complete", NoData)
    \/ /\ clock + BonusDelay <= Epoch + MaxBonusWait
       /\ Advance(BonusDelay)

SpecBonus == Init /\ [][NextBonus]_vars

\* SpecCooldown: deaths and restarts around the cooldown.  The wall clock
\* moves by less than a cooldown, by a whole cooldown, or is set back.
CooldownDeaths == 6
CooldownResets == 1
CooldownWait == 23000
ClockSteps == {-3000, 3000, ADJUSTMENT_COOLDOWN}

NextCooldown ==
    \/ /\ calls["player_death"] < CooldownDeaths
       /\ UpdateMetrics("player_death", NoData)
    \/ /\ calls["reset"] < CooldownResets
       /\ Reset
    \/ \E dt \in ClockSteps :
          /\ clock + dt >= Epoch
          /\ clock + dt <= Epoch + CooldownWait
          /\ Advance(dt)

SpecCooldown == Init /\ [][NextCooldown]_vars

\* SpecStreaks: a player who clears levels at the first attempt or keeps
\* dying, restarted now and then; each call one cooldown after the previous.
MaxStreakCalls == 16
MaxStreakResets == 2

NextStreaks ==
    \/ /\ TotalCalls < MaxStreakCalls
       /\ UpdateMetricsAt("player_death", NoData, clock + ADJUSTMENT_COOLDOWN)
    \/ /\ TotalCalls < MaxStreakCalls
       /\ deathCount = 0
       /\ UpdateMetricsAt("level_complete", NoData, clock + ADJUSTMENT_COOLDOWN)
    \/ /\ TotalCalls < MaxStreakCalls
       /\ calls["reset"] < MaxStreakResets
       /\ Reset

SpecStreaks == Init /\ [][NextStreaks]_vars

\* SpecConsumer: a controller built with either of two baselines (one of them
\* outside the legal ranges), a player who keeps dying, a restart, and a
\* consumer that reads through the three accessors and assigns to what it got.
WildBaseline ==
    [ enemySpeed       |-> Num(400),
      enemyCount       |-> Num(12),
      platformSpacing  |-> Num(30),
      ringRequirement  |-> Num(5),
      gravityStrength  |-> Num(900),
      powerUpFrequency |-> Milli(50) ]

Baselines == {Scenario1Baseline, WildBaseline}

InitAny ==
    \E B \in Baselines :
        /\ playerMetrics = Constructed(B).playerMetrics
        /\ baseSettings = Constructed(B).baseSettings
        /\ currentSettings = Constructed(B).currentSettings
        /\ adjustmentHistory = Constructed(B).adjustmentHistory
        /\ lastAdjustmentTime = Constructed(B).lastAdjustmentTime
        /\ deathCount = Constructed(B).deathCount
        /\ levelStartTime = Constructed(B).levelStartTime
        /\ lastActionTime = Constructed(B).lastActionTime
        /\ consecutiveFailures = Constructed(B).consecutiveFailures
        /\ consecutiveSuccesses = Constructed(B).consecutiveSuccesses
        /\ clock = Epoch
        /\ calls = [k \in CallKinds |-> 0]
        /\ lastCall = [op |-> "new", gate |-> "none"]
        /\ adjustLog = <<>>
        /\ adjustTimes = <<-1, -1>>
        /\ heldSettings = Nothing
        /\ heldMetrics = Nothing
        /\ givenBaseline = B
        /\ gameState = InitialGameState
        /\ ringPool = newObjectPool(PoolInitialSize, PoolMaxSize)

ConsumerDeaths == 5
ConsumerResets == 2
ConsumerSpeed == Num(999)
ConsumerFrustration == Milli(990)

NextConsumer ==
    \/ /\ calls["player_death"] < ConsumerDeaths
       /\ UpdateMetricsAt("player_death", NoData, clock + ADJUSTMENT_COOLDOWN)
    \/ /\ calls["reset"] < ConsumerResets
       /\ Reset
    \/ GetCurrentSettings
    \/ GetPlayerMetrics
    \/ GetDebugInfo
    \/ WriteHeldSettings("enemySpeed", ConsumerSpeed)
    \/ WriteHeldMetrics("frustrationLevel", ConsumerFrustration)

SpecConsumer == InitAny /\ [][NextConsumer]_vars

\* SpecDecision: the decision rule over a grid of metrics and streaks.  The
\* controller is taken in the middle of a session, with each metric on, below
\* or above the thresholds of the rules, and handles up to MaxDecisionCalls
\* events, one cooldown apart.
FrustrationGrid == {0, Milli(300), Milli(700), Milli(800)}
SuccessGrid == {Milli(300), Milli(400), Milli(700), Milli(900), Milli(950)}
EngagementGrid == {Milli(300), Milli(400), Milli(700)}
SkillGrid == {Milli(200), Milli(300), Milli(500), Milli(700), Milli(800)}
\* <<consecutiveFailures, consecutiveSuccesses>>: one of the two is 0.
StreakGrid == {<<0, 0>>, <<3, 0>>, <<4, 0>>, <<0, 5>>, <<0, 6>>}
MaxDecisionCalls == 2

InitDecision ==
    /\ \E f \in FrustrationGrid, r \in SuccessGrid, e \in EngagementGrid, k \in SkillGrid :
          playerMetrics = [InitialMetrics EXCEPT !.frustrationLevel = f,
                                                 !.frustrationExact = DblLiteral(f \div Milli(1)),
                                                 !.successRate = r,
                                                 !.engagementScore = e,
                                                 !.skillLevel = k]
    /\ \E streak \in StreakGrid :
          /\ consecutiveFailures = streak[1]
          /\ consecutiveSuccesses = streak[2]
          /\ deathCount = streak[1]
    /\ baseSettings = Scenario1Baseline
    /\ currentSettings = Scenario1Baseline
    /\ adjustmentHistory = <<>>
    /\ lastAdjustmentTime = 0
    /\ levelStartTime = 0
    /\ lastActionTime = 0
    /\ clock = Epoch
    /\ calls = [k \in CallKinds |-> 0]
    /\ lastCall = [op |-> "new", gate |-> "none"]
    /\ adjustLog = <<>>
    /\ adjustTimes = <<-1, -1>>
    /\ heldSettings = Nothing
    /\ heldMetrics = Nothing
    /\ givenBaseline = Scenario1Baseline
    /\ gameState = InitialGameState
    /\ ringPool = newObjectPool(PoolInitialSize, PoolMaxSize)

DecisionEvents == {"player_death", "level_complete", "ring_collected", OtherKind}

NextDecision ==
    /\ TotalCalls < MaxDecisionCalls
    /\ \E e \in DecisionEvents : UpdateMetricsAt(e, NoData, clock + ADJUSTMENT_COOLDOWN)

SpecDecision == InitDecision /\ [][NextDecision]_vars

\* SpecGame: any caller of the GameStateManager.  Lives may be taken below
\* 0 (loseLife has no floor), down to -MaxDebt; the score is followed up to
\* MaxScore and the level up to MaxLevel.
MaxDebt == 1
MaxScore == 1200
MaxLevel == 3
RingCounts == {0, 3}

NextGame ==
    \/ /\ gameState.score + 100 <= MaxScore
       /\ CollectRing
    \/ /\ gameState.lives > -MaxDebt
       /\ LoseLife
    \/ AddLife
    \/ /\ gameState.score + 500 <= MaxScore
       /\ gameState.level < MaxLevel
       /\ NextLevel
    \/ \E count \in RingCounts : SetTotalRings(count)
    \/ ResetLevel
    \/ ResetGame

SpecGame == Init /\ [][NextGame]_vars

\* SpecBaselines: controllers built with baselines inside and outside the
\* legal ranges, and a player who dies or clears levels, each call one cooldown
\* after the previous one.
LowBaseline ==
    [ enemySpeed       |-> Num(20),
      enemyCount       |-> Num(0),
      platformSpacing  |-> Num(300),
      ringRequirement  |-> Num(5),
      gravityStrength  |-> Num(100),
      powerUpFrequency |-> Milli(2000) ]

CrowdedBaseline ==
    [ enemySpeed       |-> Num(250),
      enemyCount       |-> Num(20),
      platformSpacing  |-> Num(190),
      ringRequirement  |-> Num(5),
      gravityStrength  |-> Num(790),
      powerUpFrequency |-> Milli(950) ]

WideBaselines == Baselines \cup {LowBaseline, CrowdedBaseline}

StartsFrom(B) ==
    /\ playerMetrics = Constructed(B).playerMetrics
    /\ baseSettings = Constructed(B).baseSettings
    /\ currentSettings = Constructed(B).currentSettings
    /\ adjustmentHistory = Constructed(B).adjustmentHistory
    /\ lastAdjustmentTime = Constructed(B).lastAdjustmentTime
    /\ deathCount = Constructed(B).deathCount
    /\ levelStartTime = Constructed(B).levelStartTime
    /\ lastActionTime = Constructed(B).lastActionTime
    /\ consecutiveFailures = Constructed(B).consecutiveFailures
    /\ consecutiveSuccesses = Constructed(B).consecutiveSuccesses
    /\ clock = Epoch
    /\ calls = [k \in CallKinds |-> 0]
    /\ lastCall = [op |-> "new", gate |-> "none"]
    /\ adjustLog = <<>>
    /\ adjustTimes = <<-1, -1>>
    /\ heldSettings = Nothing
    /\ heldMetrics = Nothing
    /\ givenBaseline = B
    /\ gameState = InitialGameState
    /\ ringPool = newObjectPool(PoolInitialSize, PoolMaxSize)

InitWide == \E B \in WideBaselines : StartsFrom(B)

MaxBaselineCalls == 10

NextBaselines ==
    \/ /\ TotalCalls < MaxBaselineCalls
       /\ UpdateMetricsAt("player_death", NoData, clock + ADJUSTMENT_COOLDOWN)
    \/ /\ TotalCalls < MaxBaselineCalls
       /\ UpdateMetricsAt("level_complete", NoData, clock + ADJUSTMENT_COOLDOWN)

SpecBaselines == InitWide /\ [][NextBaselines]_vars

\* SpecCalm: a losing streak and rings, in any order and in bursts (at one
\* reading of the clock), with CalmWaits waits of one cooldown in between.
\* Deaths enough for the streak of the Relief rule, rings one more than take
\* the frustration of that many deaths back to 0.
CalmDeaths == 4
CalmRings == ((InitialMetrics.frustrationLevel + CalmDeaths * Milli(100)) \div Milli(20)) + 1
CalmWaits == 1

NextCalm ==
    \/ /\ calls["player_death"] < CalmDeaths
       /\ UpdateMetrics("player_death", NoData)
    \/ /\ calls["ring_collected"] < CalmRings
       /\ UpdateMetrics("ring_collected", NoData)
    \/ /\ clock + ADJUSTMENT_COOLDOWN <= Epoch + CalmWaits * ADJUSTMENT_COOLDOWN
       /\ Advance(ADJUSTMENT_COOLDOWN)

SpecCalm == Init /\ [][NextCalm]_vars

\* SpecSiege: persistent failure.  Up to SiegePrelude calls of any of four
\* kinds bring the controller, built on any of the baselines, into some
\* state; from then on only player_death is delivered, SiegeDeaths times.
\* Every call comes one cooldown after the previous one, and the caller does
\* not stop before its budget is used up.
SiegePrelude == 4
SiegeDeaths == 32

NextSiege ==
    \/ /\ TotalCalls < SiegePrelude
       /\ \E e \in {"level_complete", "ring_collected", "power_up_collected"} :
             UpdateMetricsAt(e, NoData, clock + ADJUSTMENT_COOLDOWN)
    \/ /\ TotalCalls < SiegePrelude + SiegeDeaths
       /\ UpdateMetricsAt("player_death", NoData, clock + ADJUSTMENT_COOLDOWN)

\* Every step of NextSiege is a call one cooldown later; as long as the
\* budget lasts, the next call comes.
SiegeDelivery ==
    /\ TotalCalls < SiegePrelude + SiegeDeaths
    /\ clock' = clock + ADJUSTMENT_COOLDOWN

\* SpecPool: any caller of one ObjectPool.  It releases any object it ever
\* got, any time and any number of times, and an object (0) that is not the
\* pool's.
NextPool ==
    \/ PoolGet
    \/ \E obj \in 0..ringPool.made : PoolRelease(obj)
    \/ PoolReleaseAll
    \/ PoolGetStats

SpecPool == Init /\ [][NextPool]_vars

SpecSiege == InitWide /\ [][NextSiege]_vars /\ WF_clock(SiegeDelivery)

----------------------------------------------------------------------------
(* Claims *)

InRange(x, lo, hi) == lo <= x /\ x <= hi

\* C1: with the scenario-1 baseline, in every reachable state the settings lie
\* in their ranges: enemySpeed in [50,300], enemyCount a whole number in
\* [1,10], platformSpacing in [50,200], gravityStrength in [300,800],
\* powerUpFrequency in [0.1,1].
C1_SettingsWithinRange ==
    /\ baseSettings = Scenario1Baseline
    /\ InRange(currentSettings.enemySpeed, Num(50), Num(300))
    /\ InRange(currentSettings.enemyCount, Num(1), Num(10))
    /\ currentSettings.enemyCount % SUNIT = 0
    /\ InRange(currentSettings.platformSpacing, Num(50), Num(200))
    /\ InRange(currentSettings.gravityStrength, Num(300), Num(800))
    /\ InRange(currentSettings.powerUpFrequency, Milli(100), ONE)

\* An increase has just been applied that left platformSpacing and enemyCount
\* on their upper bounds.
C1_Witness ==
    /\ lastCall.gate = "applied"
    /\ adjustLog # <<>>
    /\ adjustLog[Len(adjustLog)] > 0
    /\ currentSettings.platformSpacing = Num(200)
    /\ currentSettings.enemyCount = Num(10)

\* C2: engagementScore stays within [0,1] after any sequence of events, in
\* particular after any number of consecutive power_up_collected events and
\* after any level_complete.
C2_EngagementWithinUnit ==
    InRange(playerMetrics.engagementScore, 0, ONE)

\* C3: skillLevel stays within [0,1] after any sequence of events, including
\* player_input events whose expected-time marker is arbitrary.
C3_SkillWithinUnit ==
    InRange(playerMetrics.skillLevel, 0, ONE)

\* C4: frustrationLevel and successRate stay within [0,1] after any sequence
\* of events: frustrationLevel saturates at 1 under repeated player_death and
\* at 0 under repeated ring_collected, and successRate stays in [0,1] under
\* level_complete events with any deathCount.
C4_FrustrationAndSuccessWithinUnit ==
    /\ InRange(playerMetrics.frustrationLevel, 0, ONE)
    /\ InRange(playerMetrics.successRate, 0, ONE)

\* The death that finds frustrationLevel at 1 has been handled (no ring was
\* collected, so the deaths alone add up to more than 1), after a level was
\* completed with deaths counted.
C4_Witness ==
    /\ lastCall.op = "player_death"
    /\ calls["player_death"] = MoodDeaths
    /\ calls["ring_collected"] = 0
    /\ playerMetrics.frustrationLevel = ONE
    /\ calls["level_complete"] > 0
    /\ playerMetrics.successRate < InitialMetrics.successRate

\* C5: any two adjustments applied one after the other, at clock readings t1
\* and t2, have t2 - t1 >= 10,000 ms, also when reset() is called in between.
C5_AdjustmentsCooldownApart ==
    adjustTimes[1] >= 0 => adjustTimes[2] - adjustTimes[1] >= ADJUSTMENT_COOLDOWN

\* Two adjustments have been applied exactly one cooldown apart, with a
\* reset() between them (which emptied the log the first one was in).
C5_Witness ==
    /\ adjustTimes[1] >= 0
    /\ adjustTimes[2] - adjustTimes[1] = ADJUSTMENT_COOLDOWN
    /\ calls["reset"] > 0
    /\ Len(adjustLog) = 1

\* C6: an event processed while now - lastAdjustmentTime < 10,000 ms leaves
\* Settings, adjustmentHistory and lastAdjustmentTime unchanged, whatever the
\* metrics and counters are.
C6_CooldownSkips ==
    [][ ( /\ calls' # calls
          /\ calls'["reset"] = calls["reset"]
          /\ clock' - lastAdjustmentTime < ADJUSTMENT_COOLDOWN )
        => UNCHANGED <<currentSettings, adjustmentHistory, lastAdjustmentTime>> ]_vars

\* An event was held back 3,000 ms after the only adjustment so far, although
\* a decision rule matches.
C6_Witness ==
    /\ lastCall.gate = "cooldown"
    /\ lastCall.op \in EventKinds
    /\ clock - lastAdjustmentTime = 3000
    /\ Len(adjustLog) = 1
    /\ shouldAdjustDifficulty(playerMetrics, consecutiveFailures, consecutiveSuccesses).adjust

\* C7: consecutiveFailures and consecutiveSuccesses are never both nonzero.
C7_StreaksExclusive ==
    consecutiveFailures = 0 \/ consecutiveSuccesses = 0

\* A winning streak that began after a losing streak of two or more.
C7_Witness ==
    /\ lastCall.op = "level_complete"
    /\ consecutiveSuccesses >= 2
    /\ consecutiveFailures = 0
    /\ deathCount >= 2

LastN(seq, n) == SubSeq(seq, Len(seq) - n + 1, Len(seq))

\* C8: adjustmentHistory is the sequence of the signed intensities of the most
\* recent min(10, n) adjustments, oldest first, n being the number of
\* adjustments applied since construction or the last reset(); so it never
\* holds more than 10 entries and the 11th adjustment evicts the oldest one.
C8_HistoryIsRecentWindow ==
    /\ Len(adjustmentHistory) <= HistoryLimit
    /\ adjustmentHistory = LastN(adjustLog, Min(HistoryLimit, Len(adjustLog)))

\* The 11th adjustment since a reset() has been applied; the entry it evicted
\* was an increase and the newest entry is a decrease.
C8_Witness ==
    /\ lastCall.gate = "applied"
    /\ Len(adjustLog) = HistoryLimit + 1
    /\ Len(adjustmentHistory) = HistoryLimit
    /\ calls["reset"] > 0
    /\ adjustLog[1] > 0
    /\ adjustLog[Len(adjustLog)] < 0

\* C9: after reset() the Settings equal the construction-time baseline field
\* for field, adjustmentHistory is empty and consecutiveFailures,
\* consecutiveSuccesses and deathCount are 0; a second reset() right after it
\* changes nothing.
C9_ResetRestoresBaseline ==
    /\ [](lastCall.op = "reset" =>
            /\ currentSettings = Scenario1Baseline
            /\ adjustmentHistory = <<>>
            /\ consecutiveFailures = 0
            /\ consecutiveSuccesses = 0
            /\ deathCount = 0)
    /\ [][ (lastCall.op = "reset" /\ calls'["reset"] > calls["reset"])
           => UNCHANGED ctl ]_vars

\* The only reset() so far has just returned; before it, adjustments of both
\* directions had been applied and deaths counted.
C9_Witness ==
    /\ lastCall.op = "reset"
    /\ calls["reset"] = 1
    /\ adjustTimes[1] >= 0
    /\ calls["player_death"] >= 4
    /\ calls["level_complete"] >= 5
    /\ currentSettings = Scenario1Baseline

\* C10: reset() leaves every PlayerMetrics field as it was before the call.
C10_ResetKeepsMetrics ==
    [][ calls'["reset"] > calls["reset"] => playerMetrics' = playerMetrics ]_vars

\* reset() has just returned and the metrics are not the seed metrics: every
\* field that events change has moved and was kept.
C10_Witness ==
    /\ lastCall.op = "reset"
    /\ playerMetrics.successRate # InitialMetrics.successRate
    /\ playerMetrics.reactionTime # InitialMetrics.reactionTime
    /\ playerMetrics.engagementScore # InitialMetrics.engagementScore
    /\ playerMetrics.skillLevel # InitialMetrics.skillLevel

\* C11: an updateMetrics call whose event kind is none of the six kinds of the
\* switch is ignored: no PlayerMetrics field changes and no adjustment is
\* considered (Settings, adjustmentHistory and lastAdjustmentTime unchanged),
\* even when the cooldown has elapsed and a decision rule would match.
C11_UnknownEventIgnored ==
    [][ calls'[OtherKind] > calls[OtherKind]
        => UNCHANGED <<playerMetrics, currentSettings, adjustmentHistory,
                       lastAdjustmentTime>> ]_vars

\* An event of an unknown kind has just been handled and an adjustment was
\* applied during that call.
C11_Witness ==
    /\ lastCall.op = OtherKind
    /\ lastCall.gate = "applied"
    /\ lastAdjustmentTime = clock
    /\ adjustmentHistory # <<>>

\* C12: assigning to the metrics or settings object contained in the value
\* returned by getDebugInfo() does not change the controller's PlayerMetrics or
\* Settings.
C12_DebugInfoIsReadOnly ==
    [][ ( /\ lastCall'.op = "consumer_write"
          /\ \/ heldSettings' # heldSettings /\ heldSettings.from = "getDebugInfo"
             \/ heldMetrics' # heldMetrics /\ heldMetrics.from = "getDebugInfo" )
        => UNCHANGED <<playerMetrics, currentSettings>> ]_vars

\* The consumer's assignment to the settings object of getDebugInfo() has
\* put the controller's enemySpeed outside its legal range.
C12_Witness ==
    /\ lastCall.op = "consumer_write"
    /\ heldSettings.from = "getDebugInfo"
    /\ heldSettings.live
    /\ currentSettings.enemySpeed = ConsumerSpeed
    /\ ~InRange(currentSettings.enemySpeed, Num(50), Num(300))

\* C13: getCurrentSettings() and getPlayerMetrics() return independent
\* snapshots: assigning to a returned record does not change the controller's
\* state, and later events, adjustments and reset() calls do not change a
\* record returned earlier.
C13_SnapshotsIndependent ==
    /\ [][ ( /\ lastCall'.op = "consumer_write"
             /\ \/ /\ heldSettings' # heldSettings
                   /\ heldSettings.from = "getCurrentSettings"
                \/ /\ heldMetrics' # heldMetrics
                   /\ heldMetrics.from = "getPlayerMetrics" )
           => UNCHANGED ctl ]_vars
    /\ [][ calls' # calls
           => /\ heldSettings.from = "getCurrentSettings" => heldSettings' = heldSettings
              /\ heldMetrics.from = "getPlayerMetrics" => heldMetrics' = heldMetrics ]_vars

\* The consumer holds a settings snapshot and a metrics snapshot taken before
\* an adjustment; it assigned to both, and neither assignment nor adjustment
\* crossed over.
C13_Witness ==
    /\ heldSettings.from = "getCurrentSettings"
    /\ heldMetrics.from = "getPlayerMetrics"
    /\ heldSettings.value.enemySpeed = ConsumerSpeed
    /\ heldMetrics.value.frustrationLevel = ConsumerFrustration
    /\ heldSettings.value.gravityStrength = givenBaseline.gravityStrength
    /\ lastCall.gate = "applied"
    /\ currentSettings.gravityStrength # givenBaseline.gravityStrength
    /\ currentSettings.enemySpeed # ConsumerSpeed
    /\ playerMetrics.frustrationLevel # ConsumerFrustration

\* The conditions of the Relief rule and of the Challenge rule.
ReliefHolds(m, failures) ==
    FrustrationAbove(m, 700) \/ m.successRate < Milli(400) \/ failures > 3
ChallengeHolds(m, successes) ==
    m.engagementScore < Milli(400) \/ m.successRate > Milli(900) \/ successes > 5

\* C14: first match wins, Relief before Challenge before Skill-matching.  An
\* adjustment applied while a Relief condition holds is a decrease (it narrows
\* platformSpacing), whatever else holds; one applied while a Challenge
\* condition holds and no Relief condition does is an increase (it widens
\* platformSpacing), also when skillLevel < 0.3.
C14_ReliefThenChallenge ==
    [][ (calls' # calls /\ lastCall'.gate = "applied")
        => /\ ReliefHolds(playerMetrics', consecutiveFailures')
              => currentSettings'.platformSpacing < currentSettings.platformSpacing
           /\ ( /\ ~ReliefHolds(playerMetrics', consecutiveFailures')
                /\ ChallengeHolds(playerMetrics', consecutiveSuccesses') )
              => currentSettings'.platformSpacing > currentSettings.platformSpacing ]_vars

\* Two adjustments in a row.  The second, on a level_complete that ended a
\* losing streak, found only a Challenge condition (engagementScore < 0.4)
\* with skillLevel < 0.3, and was an increase.  The first was a decrease, and
\* engagementScore was below 0.4 then too.
C14_Witness ==
    /\ lastCall = [op |-> "level_complete", gate |-> "applied"]
    /\ ~ReliefHolds(playerMetrics, consecutiveFailures)
    /\ ChallengeHolds(playerMetrics, consecutiveSuccesses)
    /\ playerMetrics.skillLevel < Milli(300)
    /\ playerMetrics.engagementScore < Milli(250)
    /\ Len(adjustLog) = 2
    /\ adjustLog[1] < 0
    /\ adjustLog[2] > 0
    /\ currentSettings.platformSpacing = Times(Times(Num(120), Milli(900)), Milli(1100))

\* C15: on a fresh controller with the scenario-1 baseline and the clock held
\* at a reading for which the first gate passes, four player_death events and
\* nothing else leave frustrationLevel <= 1, consecutiveFailures = 4,
\* consecutiveSuccesses = 0 and exactly one adjustment applied, a decrease,
\* with enemySpeed and gravityStrength below their baseline values.
C15_FourDeaths ==
    ( /\ calls["player_death"] = 4
      /\ TotalCalls = 4
      /\ clock = Epoch
      /\ cooldownElapsed(Epoch, Constructed(Scenario1Baseline).lastAdjustmentTime) )
    => /\ playerMetrics.frustrationLevel <= ONE
       /\ consecutiveFailures = 4
       /\ consecutiveSuccesses = 0
       /\ Len(adjustmentHistory) = 1
       /\ Len(adjustLog) = 1
       /\ adjustmentHistory[1] < 0
       /\ currentSettings.enemySpeed < Scenario1Baseline.enemySpeed
       /\ currentSettings.gravityStrength < Scenario1Baseline.gravityStrength

\* The fourth death in a row has been handled at the reading of construction:
\* it is the one that was adjusted on, by 20 %.
C15_Witness ==
    /\ calls["player_death"] = 4
    /\ TotalCalls = 4
    /\ clock = Epoch
    /\ lastCall = [op |-> "player_death", gate |-> "applied"]
    /\ adjustmentHistory = << -Milli(200) >>
    /\ currentSettings.enemySpeed = Num(80)
    /\ currentSettings.gravityStrength = Num(320)
    /\ playerMetrics.frustrationLevel = Milli(700)

C17_FirstLevelCleared ==
    [][ ( /\ TotalCalls = 1
          /\ calls["level_start"] = 1
          /\ calls'["level_complete"] = 1
          /\ clock' - levelStartTime = 5000 )
        => /\ playerMetrics'.successRate = Milli(760)
           /\ 2 * playerMetrics'.engagementScore = Milli(1495)
           /\ consecutiveSuccesses' = 1
           /\ consecutiveFailures' = 0 ]_vars

\* The level started some time after construction has been completed 5,000 ms
\* after its start, as the second call on the controller (a level completed
\* at the reading of its start would leave engagementScore at 0.76).
C17_Witness ==
    /\ lastCall.op = "level_complete"
    /\ TotalCalls = 2
    /\ calls["level_start"] = 1
    /\ levelStartTime > Epoch
    /\ clock - levelStartTime = BonusDelay
    /\ BonusDelay = 5000
    /\ playerMetrics.successRate > InitialMetrics.successRate
    /\ playerMetrics.engagementScore > InitialMetrics.engagementScore
    /\ playerMetrics.engagementScore < Milli(750)
    /\ deathCount = 0

\* C18: right after construction with a baseline B, before any event,
\* getCurrentSettings() equals B field for field, adjustmentHistory is empty
\* and the counters are 0.
C18_FreshEqualsBaseline ==
    lastCall.op = "new"
    => /\ getCurrentSettings(State).value = givenBaseline
       /\ heldSettings.from = "getCurrentSettings" => heldSettings.value = givenBaseline
       /\ adjustmentHistory = <<>>
       /\ consecutiveFailures = 0
       /\ consecutiveSuccesses = 0
       /\ deathCount = 0

\* Nothing has been called but getCurrentSettings(), on a controller built
\* with the baseline that lies outside the legal ranges.
C18_Witness ==
    /\ lastCall.op = "new"
    /\ TotalCalls = 0
    /\ heldSettings.from = "getCurrentSettings"
    /\ givenBaseline = WildBaseline
    /\ heldSettings.value.enemySpeed = Num(400)
    /\ heldSettings.value.powerUpFrequency = Milli(50)

\* C19: the baseline captured at construction never changes, whatever events,
\* adjustments and reset() calls follow, so every reset() restores exactly the
\* construction-time values.
C19_BaselineImmutable ==
    /\ baseSettings = givenBaseline
    /\ lastCall.op = "reset" => currentSettings = givenBaseline

\* The second reset() has just returned.  Two adjustments or more had been
\* applied, the last one at this reading of the clock, and the consumer had
\* assigned to the settings object of getDebugInfo() that the controller
\* then owned.
C19_Witness ==
    /\ lastCall.op = "reset"
    /\ calls["reset"] = 2
    /\ adjustTimes[1] >= 0
    /\ adjustTimes[2] = clock
    /\ heldSettings.from = "getDebugInfo"
    /\ ~heldSettings.live
    /\ heldSettings.value.enemySpeed = ConsumerSpeed
    /\ currentSettings = givenBaseline
    /\ givenBaseline = WildBaseline

\* C20: the player has 3 lives at construction and after
\* GameStateManager.reset(); lives never exceeds 5 after any sequence of
\* addLife, loseLife, collectRing, nextLevel, resetLevel and reset; addLife at
\* 5 lives leaves lives unchanged.
C20_LivesCapped ==
    /\ [](/\ gameState.lives <= 5
          /\ lastCall.op \in {"new", "GameStateManager.reset"} => gameState.lives = 3)
    /\ [][ (lastCall'.op = "addLife" /\ gameState.lives = 5)
           => gameState'.lives = 5 ]_vars

\* addLife() has just been called at 5 lives, in a game past its first level
\* with rings collected in the current one.
C20_Witness ==
    /\ lastCall = [op |-> "addLife", gate |-> "full"]
    /\ gameState.lives = 5
    /\ gameState.level > 1
    /\ gameState.ringsCollected > 0
    /\ gameState.score = 100 * gameState.ringsCollected + 500 * (gameState.level - 1)

\* The condition of the Skill-matching rule.
SkillHolds(m) == Abs(m.skillLevel - Milli(500)) > Milli(200)

\* C21: a call runs the event's own update, then the skill recompute, then the
\* cooldown check, then the adjustment.  So skillLevel is recomputed from the
\* successRate, reactionTime and consecutiveSuccesses the event left; with the
\* cooldown satisfied an adjustment is applied exactly when a rule matches the
\* metrics and streaks the event left; and the player_death that takes
\* consecutiveFailures from 3 to 4 is the one that is adjusted on.
C21_DecisionSeesTheEvent ==
    [][ (calls' # calls /\ calls'["reset"] = calls["reset"])
        => /\ playerMetrics'.skillLevel =
                 updateSkillLevel([playerMetrics' EXCEPT !.skillLevel = playerMetrics.skillLevel],
                                  consecutiveSuccesses').skillLevel
           /\ clock' - lastAdjustmentTime >= ADJUSTMENT_COOLDOWN
              => /\ (lastAdjustmentTime' = clock')
                       <=> \/ ReliefHolds(playerMetrics', consecutiveFailures')
                           \/ ChallengeHolds(playerMetrics', consecutiveSuccesses')
                           \/ SkillHolds(playerMetrics')
                 /\ (consecutiveFailures = 3 /\ consecutiveFailures' = 4)
                       => /\ lastAdjustmentTime' = clock'
                          /\ Len(adjustmentHistory') = Len(adjustmentHistory) + 1 ]_vars

\* The fourth death in a row has just been handled and adjusted on, the first
\* adjustment of the session; a level had been completed before the streak,
\* which moved successRate and with it the skill recompute.
C21_Witness ==
    /\ lastCall = [op |-> "player_death", gate |-> "applied"]
    /\ consecutiveFailures = 4
    /\ Len(adjustmentHistory) = 1
    /\ lastAdjustmentTime = clock
    /\ calls["level_complete"] >= 1
    /\ playerMetrics.successRate # InitialMetrics.successRate
    /\ playerMetrics.frustrationLevel <= Milli(700)

C23_SkillMatching ==
    [][ ( /\ calls' # calls
          /\ calls'["reset"] = calls["reset"]
          /\ clock' - lastAdjustmentTime >= ADJUSTMENT_COOLDOWN
          /\ ~ReliefHolds(playerMetrics', consecutiveFailures')
          /\ ~ChallengeHolds(playerMetrics', consecutiveSuccesses') )
        => IF SkillHolds(playerMetrics')
           THEN /\ lastAdjustmentTime' = clock'
                /\ Len(adjustmentHistory') = Len(adjustmentHistory) + 1
                /\ Abs(adjustmentHistory'[Len(adjustmentHistory')]) =
                      Times(Abs(playerMetrics'.skillLevel - Milli(500)), Milli(100))
                /\ playerMetrics'.skillLevel > Milli(500)
                   => /\ adjustmentHistory'[Len(adjustmentHistory')] > 0
                      /\ currentSettings'.platformSpacing > currentSettings.platformSpacing
                /\ playerMetrics'.skillLevel < Milli(500)
                   => /\ adjustmentHistory'[Len(adjustmentHistory')] < 0
                      /\ currentSettings'.platformSpacing < currentSettings.platformSpacing
           ELSE UNCHANGED <<currentSettings, adjustmentHistory, lastAdjustmentTime>> ]_vars

\* A decrease has just been applied on skill alone: skillLevel is below 0.3
\* while frustration, success rate, engagement and streaks call for nothing.
C23_Witness ==
    /\ lastCall.gate = "applied"
    /\ ~ReliefHolds(playerMetrics, consecutiveFailures)
    /\ ~ChallengeHolds(playerMetrics, consecutiveSuccesses)
    /\ playerMetrics.skillLevel < Milli(300)
    /\ Len(adjustmentHistory) = 1
    /\ adjustmentHistory[1] = -Times(Milli(500) - playerMetrics.skillLevel, Milli(100))
    /\ adjustmentHistory[1] < -Milli(20)
    /\ currentSettings.platformSpacing = Num(108)

ClampTo(x, lo, hi) == Max(lo, Min(hi, x))

\* What an adjustment of intensity i makes of settings S, field by field, T
\* being the settings after it; count is what is said of enemyCount.
AdjustedFields(S, T, m, spacingFactor, powerUpFactor, count) ==
    /\ T.enemySpeed = ClampTo(Times(S.enemySpeed, m), Num(50), Num(300))
    /\ T.gravityStrength = ClampTo(Times(S.gravityStrength, m), Num(300), Num(800))
    /\ T.enemyCount = count
    /\ T.platformSpacing = ClampTo(Times(S.platformSpacing, spacingFactor), Num(50), Num(200))
    /\ T.powerUpFrequency = ClampTo(Times(S.powerUpFrequency, powerUpFactor), Milli(100), ONE)
    /\ T.ringRequirement = S.ringRequirement

\* enemyCount as the claim has it.
StatedIncrease(S, T, i) ==
    AdjustedFields(S, T, ONE + i, Milli(1100), Milli(900),
                   Min(Num(10), CeilCount(S.enemyCount * (ONE + i))))
StatedDecrease(S, T, i) ==
    AdjustedFields(S, T, ONE - i, Milli(900), Milli(1100),
                   Max(Num(1), FloorCount(S.enemyCount * (ONE - i))))

\* enemyCount clamped to [1,10] like the other fields.
ClampedIncrease(S, T, i) ==
    AdjustedFields(S, T, ONE + i, Milli(1100), Milli(900),
                   ClampTo(CeilCount(S.enemyCount * (ONE + i)), Num(1), Num(10)))
ClampedDecrease(S, T, i) ==
    AdjustedFields(S, T, ONE - i, Milli(900), Milli(1100),
                   ClampTo(FloorCount(S.enemyCount * (ONE - i)), Num(1), Num(10)))

\* An adjustment has been applied in this step; its signed intensity.
AdjustmentApplied == calls' # calls /\ lastCall'.gate = "applied"
AppliedEntry == adjustmentHistory'[Len(adjustmentHistory')]

\* C24 (as stated): an adjustment of direction d and intensity i takes
\* Settings S to: enemySpeed and gravityStrength times m = 1 + i or 1 - i,
\* clamped; on increase enemyCount = min(10, ceil(S.enemyCount * m)),
\* platformSpacing * 1.1 and powerUpFrequency * 0.9, clamped; on decrease
\* enemyCount = max(1, floor(S.enemyCount * m)), platformSpacing * 0.9 and
\* powerUpFrequency * 1.1, clamped; ringRequirement unchanged.
C24_AdjustmentAsStated ==
    [][ AdjustmentApplied
        => \/ /\ AppliedEntry >= 0
              /\ StatedIncrease(currentSettings, currentSettings', AppliedEntry)
           \/ /\ AppliedEntry <= 0
              /\ StatedDecrease(currentSettings, currentSettings', -AppliedEntry) ]_vars

\* C24 (amended): the same, with enemyCount clamped to [1,10] after the
\* ceiling or the floor, as clampSettings does for every field: on increase
\* enemyCount = clamp(ceil(S.enemyCount * m), 1, 10), on decrease
\* enemyCount = clamp(floor(S.enemyCount * m), 1, 10).
C24_AdjustmentClamped ==
    [][ AdjustmentApplied
        => \/ /\ AppliedEntry >= 0
              /\ ClampedIncrease(currentSettings, currentSettings', AppliedEntry)
           \/ /\ AppliedEntry <= 0
              /\ ClampedDecrease(currentSettings, currentSettings', -AppliedEntry) ]_vars

\* The first adjustment on the baseline with 20 enemies, a decrease of 0.2,
\* has just been applied: floor(20 * 0.8) is 16 and enemyCount is 10.
C24_Witness ==
    /\ lastCall.gate = "applied"
    /\ givenBaseline = CrowdedBaseline
    /\ adjustmentHistory = << -Milli(200) >>
    /\ currentSettings.enemyCount = Num(10)
    /\ currentSettings.enemySpeed = Num(200)
    /\ currentSettings.gravityStrength = Num(632)
    /\ currentSettings.ringRequirement = CrowdedBaseline.ringRequirement

\* C25: lastAdjustmentTime changes only when an adjustment is applied.  An
\* event handled with the cooldown satisfied and no rule matching leaves
\* Settings, adjustmentHistory and lastAdjustmentTime unchanged, so the
\* cooldown is not restarted and a later event that matches a rule adjusts
\* at once.
C25_CooldownNotRestarted ==
    [][ /\ ( /\ calls' # calls
             /\ calls'["reset"] = calls["reset"]
             /\ clock' - lastAdjustmentTime >= ADJUSTMENT_COOLDOWN
             /\ ~ReliefHolds(playerMetrics', consecutiveFailures')
             /\ ~ChallengeHolds(playerMetrics', consecutiveSuccesses')
             /\ ~SkillHolds(playerMetrics') )
           => UNCHANGED <<currentSettings, adjustmentHistory, lastAdjustmentTime>>
        /\ lastAdjustmentTime' # lastAdjustmentTime
           => /\ lastAdjustmentTime' = clock'
              /\ Len(adjustLog') = Len(adjustLog) + 1
              /\ adjustmentHistory' # <<>> ]_vars

\* An adjustment has just been applied at the very clock reading at which
\* earlier calls had found the gate open and no rule matching.
C25_Witness ==
    /\ lastCall.gate = "applied"
    /\ lastAdjustmentTime = clock
    /\ adjustTimes = <<-1, clock>>
    /\ clock = Epoch
    /\ TotalCalls >= 3
    /\ calls["ring_collected"] >= 1
    /\ calls["level_complete"] >= 1
    /\ Len(adjustmentHistory) = 1

\* C26: no applied adjustment has an intensity above the declared maximum
\* adjustment rate of 0.15: every entry of adjustmentHistory has magnitude
\* <= 0.15 in every reachable state.
C26_IntensityWithinMaxRate ==
    \A k \in 1..Len(adjustmentHistory) : Abs(adjustmentHistory[k]) <= MAX_ADJUSTMENT_RATE

\* The fourth death in a row of a fresh session has been adjusted on by 0.2.
C26_Witness ==
    /\ lastCall = [op |-> "player_death", gate |-> "applied"]
    /\ calls["player_death"] = 4
    /\ TotalCalls = 4
    /\ adjustmentHistory = << -Milli(200) >>
    /\ Milli(200) > MAX_ADJUSTMENT_RATE
    /\ 5 * currentSettings.enemySpeed = 4 * Scenario1Baseline.enemySpeed

\* C27: for any baseline, also one outside the legal ranges, right after every
\* applied adjustment enemySpeed, enemyCount, platformSpacing, gravityStrength
\* and powerUpFrequency lie within their legal ranges.
C27_ClampedAfterAdjustment ==
    lastCall.gate = "applied"
    => /\ InRange(currentSettings.enemySpeed, Num(50), Num(300))
       /\ InRange(currentSettings.enemyCount, Num(1), Num(10))
       /\ InRange(currentSettings.platformSpacing, Num(50), Num(200))
       /\ InRange(currentSettings.gravityStrength, Num(300), Num(800))
       /\ InRange(currentSettings.powerUpFrequency, Milli(100), ONE)

\* The first adjustment on the baseline that had every adjusted field outside
\* its range has just been applied, and each of them now sits on a bound.
C27_Witness ==
    /\ lastCall.gate = "applied"
    /\ givenBaseline = LowBaseline
    /\ Len(adjustLog) = 1
    /\ ~InRange(givenBaseline.enemySpeed, Num(50), Num(300))
    /\ ~InRange(givenBaseline.enemyCount, Num(1), Num(10))
    /\ ~InRange(givenBaseline.platformSpacing, Num(50), Num(200))
    /\ ~InRange(givenBaseline.gravityStrength, Num(300), Num(800))
    /\ ~InRange(givenBaseline.powerUpFrequency, Milli(100), ONE)
    /\ currentSettings.enemySpeed = Num(50)
    /\ currentSettings.enemyCount = Num(1)
    /\ currentSettings.platformSpacing = Num(200)
    /\ currentSettings.gravityStrength = Num(300)
    /\ currentSettings.powerUpFrequency = ONE

\* C28: a player_death event adds 1 to deathCount and to consecutiveFailures,
\* sets consecutiveSuccesses to 0, sets frustrationLevel to
\* min(1, frustrationLevel + 0.1), and leaves successRate, engagementScore and
\* reactionTime unchanged.
C28_PlayerDeath ==
    [][ calls'["player_death"] > calls["player_death"]
        => /\ deathCount' = deathCount + 1
           /\ consecutiveFailures' = consecutiveFailures + 1
           /\ consecutiveSuccesses' = 0
           /\ playerMetrics'.frustrationLevel =
                 Min(ONE, playerMetrics.frustrationLevel + Milli(100))
           /\ playerMetrics'.successRate = playerMetrics.successRate
           /\ playerMetrics'.engagementScore = playerMetrics.engagementScore
           /\ playerMetrics'.reactionTime = playerMetrics.reactionTime ]_vars

\* A death has just ended a winning streak, and one more death than takes the
\* frustration to 1 has been handled.
C28_Witness ==
    /\ lastCall.op = "player_death"
    /\ calls["level_complete"] = 1
    /\ consecutiveSuccesses = 0
    /\ consecutiveFailures = 1
    /\ deathCount = MoodDeaths
    /\ playerMetrics.frustrationLevel = ONE
    /\ calls["ring_collected"] = 0

\* C29: a level_complete event sets successRate to
\* successRate + (1/(deathCount + 1) - successRate) * 0.2, adds 1 to
\* consecutiveSuccesses, sets consecutiveFailures to 0, and leaves deathCount,
\* frustrationLevel and reactionTime unchanged; so a second level_complete
\* without a level_start in between counts the same deaths again.
C29_LevelComplete ==
    [][ calls'["level_complete"] > calls["level_complete"]
        => /\ playerMetrics'.successRate =
                 playerMetrics.successRate
                   + Times(RoundDiv(ONE, deathCount + 1) - playerMetrics.successRate, Milli(200))
           /\ consecutiveSuccesses' = consecutiveSuccesses + 1
           /\ consecutiveFailures' = 0
           /\ deathCount' = deathCount
           /\ playerMetrics'.frustrationLevel = playerMetrics.frustrationLevel
           /\ playerMetrics'.reactionTime = playerMetrics.reactionTime ]_vars

\* Two levels have been completed in a row after two deaths, with no
\* level_start: both counted three attempts, and successRate has moved twice
\* toward 1/3.
C29_Witness ==
    /\ lastCall.op = "level_complete"
    /\ calls["level_complete"] = 2
    /\ calls["player_death"] = 2
    /\ calls["reset"] = 0
    /\ consecutiveSuccesses = 2
    /\ consecutiveFailures = 0
    /\ deathCount = 2
    /\ playerMetrics.successRate =
          LET once == InitialMetrics.successRate
                        + Times(RoundDiv(ONE, 3) - InitialMetrics.successRate, Milli(200))
          IN  once + Times(RoundDiv(ONE, 3) - once, Milli(200))

\* C30: a level_start event sets levelStartTime to the current time and
\* deathCount to 0, leaves consecutiveFailures and consecutiveSuccesses
\* unchanged, and changes no PlayerMetrics field but skillLevel (the
\* unconditional skill recompute).
C30_LevelStart ==
    [][ calls'["level_start"] > calls["level_start"]
        => /\ levelStartTime' = clock'
           /\ deathCount' = 0
           /\ consecutiveFailures' = consecutiveFailures
           /\ consecutiveSuccesses' = consecutiveSuccesses
           /\ playerMetrics' = [playerMetrics EXCEPT !.skillLevel = playerMetrics'.skillLevel] ]_vars

\* A level has just been started, some time after construction, by a player
\* who had died twice: the deaths are forgotten, the losing streak is not, and
\* the skill recompute has run on each of the three calls.
C30_Witness ==
    /\ lastCall.op = "level_start"
    /\ levelStartTime = clock
    /\ clock > Epoch
    /\ calls["player_death"] = 2
    /\ deathCount = 0
    /\ consecutiveFailures = 2
    /\ playerMetrics.frustrationLevel = InitialMetrics.frustrationLevel + Milli(200)
    /\ playerMetrics.skillLevel < InitialMetrics.skillLevel

\* C31: a ring_collected event sets frustrationLevel to
\* max(0, frustrationLevel - 0.02) and lastActionTime to the current time, and
\* leaves deathCount, consecutiveFailures, consecutiveSuccesses, successRate,
\* engagementScore and reactionTime unchanged.
C31_RingCollected ==
    [][ calls'["ring_collected"] > calls["ring_collected"]
        => /\ playerMetrics'.frustrationLevel =
                  Max(0, playerMetrics.frustrationLevel - Milli(20))
           /\ lastActionTime' = clock'
           /\ deathCount' = deathCount
           /\ consecutiveFailures' = consecutiveFailures
           /\ consecutiveSuccesses' = consecutiveSuccesses
           /\ playerMetrics'.successRate = playerMetrics.successRate
           /\ playerMetrics'.engagementScore = playerMetrics.engagementScore
           /\ playerMetrics'.reactionTime = playerMetrics.reactionTime ]_vars

\* A ring has just been collected by a player whose frustration was already
\* 0 (one ring more than takes the seed frustration to the floor), after a
\* cleared level: the floor binds, the timestamp is the reading of the clock,
\* and the winning streak and the smoothed success rate of the completion
\* stand.
C31_Witness ==
    /\ lastCall.op = "ring_collected"
    /\ calls["ring_collected"] = MoodRings
    /\ calls["player_death"] = 0
    /\ calls["level_complete"] = 1
    /\ playerMetrics.frustrationLevel = 0
    /\ lastActionTime = clock
    /\ consecutiveSuccesses = 1
    /\ playerMetrics.successRate = lerp(InitialMetrics.successRate, ONE, Milli(200))

\* The fields a player_input event is said to leave alone.
InputFrame ==
    /\ deathCount' = deathCount
    /\ consecutiveFailures' = consecutiveFailures
    /\ consecutiveSuccesses' = consecutiveSuccesses
    /\ playerMetrics'.successRate = playerMetrics.successRate
    /\ playerMetrics'.frustrationLevel = playerMetrics.frustrationLevel
    /\ playerMetrics'.engagementScore = playerMetrics.engagementScore

\* C32: a player_input event whose payload carries an expected-time marker t
\* sets reactionTime to reactionTime + ((now - t) - reactionTime) * 0.1 for
\* every marker value t (including t = 0); a player_input event with no
\* payload or no marker leaves reactionTime unchanged; in both cases counters,
\* successRate, frustrationLevel and engagementScore are unchanged.
C32_PlayerInput ==
    [][ /\ \A t \in Markers :
              UpdateMetrics("player_input", Marker(t))
              => /\ playerMetrics'.reactionTime =
                        playerMetrics.reactionTime
                          + Times((clock' - t) * ReactionUnit - playerMetrics.reactionTime,
                                  Milli(100))
                 /\ InputFrame
        /\ UpdateMetrics("player_input", NoData)
              => /\ playerMetrics'.reactionTime = playerMetrics.reactionTime
                 /\ InputFrame ]_vars

\* A player_input event is the only call so far and reactionTime is still the
\* seed value: what a call with the marker 0 (and a call without a marker)
\* leaves behind.
C32_Witness ==
    /\ lastCall.op = "player_input"
    /\ TotalCalls = 1
    /\ playerMetrics.reactionTime = InitialMetrics.reactionTime
    /\ playerMetrics.skillLevel # InitialMetrics.skillLevel

\* The intensity of the adjustment just applied is not 0: its entry in the
\* history is visible at the model's resolution, or it is a Relief intensity
\* Math.min(frustrationLevel, 0.2) of a frustrationLevel that is not 0.
IntensityPositive ==
    AppliedEntry # 0 \/ playerMetrics'.frustrationExact # DblZero

\* C33: every applied adjustment has strictly positive intensity (its
\* multiplier is never exactly 1), so every entry of adjustmentHistory is
\* nonzero and its sign identifies the direction of the adjustment; in
\* particular a Relief adjustment is never applied with intensity 0.  (The
\* entry pushed is the intensity or its negation, so it is nonzero exactly
\* when the intensity is.)
C33_AdjustmentsNonzero ==
    [][ AdjustmentApplied => IntensityPositive ]_vars

\* A ring has just been collected by a player on a losing streak of four
\* whose frustration was already exactly 0, a cooldown after the previous
\* adjustment: the Relief rule matched on the streak and an adjustment of
\* intensity min(0, 0.2) = 0 was applied and recorded.
C33_Witness ==
    /\ lastCall = [op |-> "ring_collected", gate |-> "applied"]
    /\ calls["ring_collected"] = CalmRings
    /\ consecutiveFailures = CalmDeaths
    /\ playerMetrics.frustrationLevel = 0
    /\ playerMetrics.frustrationExact = DblZero
    /\ lastAdjustmentTime = clock
    /\ Len(adjustmentHistory) = 2
    /\ adjustmentHistory[2] = 0

\* C34: every applied adjustment with positive intensity changes enemyCount
\* by at least one whole enemy in the direction of the adjustment unless
\* enemyCount is already at its bound: an increase from n < 10 gives a value
\* >= n+1 and a decrease from n > 1 gives a value <= n-1, even for the
\* smallest Skill-matching intensities.
C34_WholeEnemyStep ==
    [][ (AdjustmentApplied /\ IntensityPositive)
        => /\ (AppliedEntry > 0 /\ currentSettings.enemyCount < Num(10))
                => currentSettings'.enemyCount >= currentSettings.enemyCount + Num(1)
           /\ (AppliedEntry <= 0 /\ currentSettings.enemyCount > Num(1))
                => currentSettings'.enemyCount <= currentSettings.enemyCount - Num(1) ]_vars

\* A Relief adjustment has just been applied on a losing streak of four with
\* a frustrationLevel that is positive but so small that 1 - frustrationLevel
\* is 1 in doubles: the multiplier was exactly 1 and enemyCount stayed at the
\* 2 the first Relief adjustment had left (enemySpeed at its 80).
C34_Witness ==
    /\ lastCall = [op |-> "ring_collected", gate |-> "applied"]
    /\ consecutiveFailures = CalmDeaths
    /\ DblAbsorbed(playerMetrics.frustrationExact)
    /\ lastAdjustmentTime = clock
    /\ Len(adjustmentHistory) = 2
    /\ adjustmentHistory[1] = -Milli(200)
    /\ currentSettings.enemyCount = Num(2)
    /\ currentSettings.enemySpeed = Times(Scenario1Baseline.enemySpeed, Milli(800))

\* The easiest settings the clamps allow.
Saturated ==
    /\ currentSettings.enemySpeed = Num(50)
    /\ currentSettings.enemyCount = Num(1)
    /\ currentSettings.platformSpacing = Num(50)
    /\ currentSettings.gravityStrength = Num(300)
    /\ currentSettings.powerUpFrequency = Milli(1000)

\* C35: saturation under persistent failure.  From any reachable state, if
\* from some point on only player_death events are delivered, each at least
\* 10,000 ms after the previous one on a monotone clock, then eventually the
\* settings reach enemySpeed = 50, enemyCount = 1, platformSpacing = 50,
\* gravityStrength = 300 and powerUpFrequency = 1, and they stay at these
\* values for as long as only such events are delivered.
C35_SaturationUnderFailure ==
    /\ <>[]Saturated
    /\ [][ (Saturated /\ TotalCalls >= SiegePrelude) => Saturated' ]_vars

\* The settings are at the easiest values after a death late in the siege,
\* on a controller built on the out-of-range baseline (its powerUpFrequency
\* starts below the floor and needs the most decreases) whose prelude held a
\* cleared level; the history window is full and its newest entry is a
\* Relief decrease of 0.2.
C35_Witness ==
    /\ Saturated
    /\ lastCall = [op |-> "player_death", gate |-> "applied"]
    /\ givenBaseline = WildBaseline
    /\ calls["level_complete"] > 0
    /\ TotalCalls >= SiegePrelude + 28
    /\ Len(adjustmentHistory) = HistoryLimit
    /\ adjustmentHistory[HistoryLimit] = -Milli(200)

\* C36: ObjectPool.  After any sequence of get, release and releaseAll, no
\* object is both in the free list and in the active set and the free list
\* contains no object twice; release(obj) of an object that is not currently
\* active (never obtained, or already released) changes neither the free list
\* nor the active set, and getStats().total equals pooled + active.
C36_PoolConsistent ==
    /\ [](/\ \A i \in 1..Len(ringPool.pool) : ~Has(ringPool.active, ringPool.pool[i])
          /\ \A i, j \in 1..Len(ringPool.pool) : ringPool.pool[i] = ringPool.pool[j] => i = j
          /\ getStats(ringPool).total = Len(ringPool.pool) + Len(ringPool.active)
          /\ getStats(ringPool).pooled = Len(ringPool.pool)
          /\ getStats(ringPool).active = Len(ringPool.active))
    /\ [][ \A obj \in 0..MaxObjects :
              (PoolRelease(obj) /\ ~Has(ringPool.active, obj))
              => ringPool'.pool = ringPool.pool /\ ringPool'.active = ringPool.active ]_vars

\* An object that was not active has just been released, to no effect,
\* while the free list is full, an object made after the pre-allocated ones
\* is active, and more objects have been made than the free list can hold
\* (one has been dropped or is still out).
C36_Witness ==
    /\ lastCall = [op |-> "release", gate |-> "inactive"]
    /\ Len(ringPool.pool) = ringPool.maxSize
    /\ ringPool.made > ringPool.maxSize + 1
    /\ Len(ringPool.active) = 1
    /\ ringPool.active[1] > PoolInitialSize

====
